---- MODULE Spec2Model ----
(***************************************************************************)
(* Verification model of the content acquisition and asset resolution      *)
(* engine of dala / epub_downloader:                                       *)
(*   - fetch_with_retry            (epub_downloader/core/session.py)       *)
(*   - ImageProcessor and ForumImageProcessor                              *)
(*                                 (epub_downloader/core/image_processor.py)*)
(*   - ArticleExtractor.get_article_content                                *)
(*                                 (epub_downloader/core/extractor.py)     *)
(* Time is counted in seconds.  An absent Python value (None) is the       *)
(* string "none".                                                          *)
(***************************************************************************)
EXTENDS Integers, Sequences, FiniteSets, TLC

VARIABLES
    \* ---- fetch_with_retry: parameters of the call
    url,                 \* the URL asked for
    max_retries,         \* max_retries
    backoff,             \* backoff (seconds)
    non_retry_statuses,  \* non_retry_statuses (the empty set when None)
    \* ---- fetch_with_retry: locals and observable effects
    fpc,                 \* "loop" while the for loop runs, "done" after return, "unused" when not modelled
    attempt,             \* the loop variable
    final_url,           \* the local final_url
    requests,            \* number of session.get calls issued
    outcomes,            \* how each attempt ended, in order
    sleeps,              \* the asyncio.sleep durations, in order
    result,              \* the returned pair [payload, url], "none" payload on failure
    \* ---- one document's image resolution (process_images)
    proc,                \* "generic": ImageProcessor, "forum": ForumImageProcessor
    elements,            \* the <img> elements of the document, by tag number
    batch_of,            \* the process_images call (1, 2, ...) that finds each tag
    preloaded_assets,    \* source.assets, the preloaded asset hints (forum)
    cur_batch,           \* the process_images call that is running or due next
    phase,               \* "idle" between calls, "running" inside one, "finished"
    book_assets,         \* the asset list of the document
    hash_map,            \* hash_map of the running forum call: hash -> asset index
    preload_map,         \* preload_map of the running forum call: URL -> asset index
    pc,                  \* per tag: "waiting", "fetching", "done"
    task,                \* per tag: the locals of its _process_tag
    tag_src,             \* per tag: the file name written to its src, <<>> if none
    how,                 \* per tag: how its _process_tag ended
    net_calls,           \* the (tag, URL) pairs handed to fetch_image_data
    \* ---- one call of a handler that falls back from aiohttp to requests
    site,                \* "image", "forum", "article": whose handler runs
    fb_url,              \* its url argument
    fb_viewer,           \* its viewer_url argument (forum)
    fb_pc,               \* where the handler stands
    fb_targets,          \* the targets still to try (forum)
    calls,               \* the HTTP client calls made so far, in order
    fb_result,           \* "pending", "payload" or "none"
    \* ---- create_bundle
    books,               \* the books argument
    bundle,              \* the BookData returned (returned = FALSE before the call)
    \* ---- _enrich_comment_tree
    forest,              \* the comment forest: its shape and the id of every node
    fields,              \* the derived fields of every node, as the dicts hold them
    passes,              \* how often _enrich_comment_tree ran on the forest
    once,                \* the derived fields as the first run left them
    comments_html,       \* the comments document format_comment_html made of the forest
    \* ---- process_urls
    sources,             \* the sources passed to process_urls
    sp_pc,               \* where each safe_process task stands
    permits,             \* the value of GLOBAL_SEMAPHORE
    sp_result,           \* what each safe_process task ended with
    returned,            \* how process_urls ended, and the books it returned
    \* ---- get_article_content and GenericDriver.prepare_book_data
    art_args,            \* force_archive and raw_html of the outermost call
    art_pc,              \* where the call stands
    art_depth,           \* how many times get_article_content called itself
    art_tried,           \* the attempts made so far, each with its outcome
    art_result,          \* the dict the outermost call returned
    art_book,            \* what GenericDriver.prepare_book_data made of it
    \* ---- DriverDispatcher.get_driver
    source,              \* the Source handed to get_driver
    profile,             \* the SiteProfile handed to it (found = FALSE: None)
    driver,              \* the driver it returned
    \* ---- HackerNewsDriver.prepare_book_data
    hn_item,             \* the HN item, the options and what the linked site yields
    hn_book,             \* the BookData returned (returned = FALSE before the call)
    \* ---- the page loop of ForumDriver.prepare_book_data
    fo_opts,             \* options.max_pages, options.max_posts, options.page_spec
    forum,               \* the locals of the loop, the pages fetched, how it ended
    \* ---- the default path of ImageProcessor.fetch_image_data
    ifd_args,            \* the arguments url and referer
    ifd,                 \* refs, the position in the loop, the requests made, the result
    \* ---- one image resolution (_process_tag) with its clock
    rs                   \* processor, element, candidates, clock, fetches, position

fetchVars == <<url, max_retries, backoff, non_retry_statuses, fpc, attempt,
               final_url, requests, outcomes, sleeps, result>>

imageVars == <<proc, elements, batch_of, preloaded_assets, cur_batch, phase,
               book_assets, hash_map, preload_map, pc, task, tag_src, how, net_calls>>

fallbackVars == <<site, fb_url, fb_viewer, fb_pc, fb_targets, calls, fb_result>>

bundleVars == <<books, bundle>>

enrichVars == <<forest, fields, passes, once, comments_html>>

processVars == <<sources, sp_pc, permits, sp_result, returned>>

articleVars == <<art_args, art_pc, art_depth, art_tried, art_result, art_book>>

dispatchVars == <<source, profile, driver>>

hnVars == <<hn_item, hn_book>>

forumVars == <<fo_opts, forum>>

refererVars == <<ifd_args, ifd>>

resolveVars == <<rs>>

vars == <<fetchVars, imageVars, fallbackVars, bundleVars, enrichVars, processVars,
          articleVars, dispatchVars, hnVars, forumVars, refererVars,
          resolveVars>>

None == "none"

(***************************************************************************)
(* Bounds of the model.                                                    *)
(***************************************************************************)
MaxRetriesBound == 3
MaxBackoff == 2
NumTags == 2

(***************************************************************************)
(* Program constants.                                                      *)
(***************************************************************************)
IMG_MAX_CANDIDATES == 2

\* The variables of fetch_with_retry while no call is modelled.
FetchUnused ==
    /\ url = None
    /\ max_retries = 0
    /\ backoff = 0
    /\ non_retry_statuses = {}
    /\ fpc = "unused"
    /\ attempt = 0
    /\ final_url = None
    /\ requests = 0
    /\ outcomes = <<>>
    /\ sleeps = <<>>
    /\ result = [payload |-> None, url |-> None]

\* The fallback variables while no handler call is modelled.
FallbackUnused ==
    /\ site = "unused"
    /\ fb_url = [scheme |-> "none"]
    /\ fb_viewer = [scheme |-> "none"]
    /\ fb_pc = "unused"
    /\ fb_targets = <<>>
    /\ calls = <<>>
    /\ fb_result = "unused"

\* The image variables while no document is processed.
ImagesUnused ==
    /\ proc = "unused"
    /\ elements = <<>>
    /\ batch_of = <<>>
    /\ preloaded_assets = <<>>
    /\ cur_batch = 0
    /\ phase = "unused"
    /\ book_assets = <<>>
    /\ hash_map = <<>>
    /\ preload_map = <<>>
    /\ pc = <<>>
    /\ task = <<>>
    /\ tag_src = <<>>
    /\ how = <<>>
    /\ net_calls = {}

\* The variables of create_bundle while no call is modelled.
BundleUnused ==
    /\ books = <<>>
    /\ bundle = [unused |-> TRUE]

\* The variables of _enrich_comment_tree while no call is modelled.
EnrichUnused ==
    /\ forest = [n |-> 0]
    /\ fields = <<>>
    /\ passes = 0
    /\ once = <<>>
    /\ comments_html = [rendered |-> FALSE]

\* The variables of process_urls while no call is modelled.
ProcessUnused ==
    /\ sources = <<>>
    /\ sp_pc = <<>>
    /\ permits = 0
    /\ sp_result = <<>>
    /\ returned = [state |-> "unused"]

\* The variables of get_article_content while no call is modelled.
ArticleUnused ==
    /\ art_args = [unused |-> TRUE]
    /\ art_pc = "unused"
    /\ art_depth = 0
    /\ art_tried = <<>>
    /\ art_result = [unused |-> TRUE]
    /\ art_book = "unused"

\* The variables of get_driver while no call is modelled.
DispatchUnused ==
    /\ source = [unused |-> TRUE]
    /\ profile = [unused |-> TRUE]
    /\ driver = "unused"

\* The variables of HackerNewsDriver while no call is modelled.
HnUnused ==
    /\ hn_item = [unused |-> TRUE]
    /\ hn_book = [unused |-> TRUE]

\* The variables of the forum page loop while no call is modelled.
ForumUnused ==
    /\ fo_opts = [unused |-> TRUE]
    /\ forum = [unused |-> TRUE]

\* The variables of fetch_image_data's referer loop while no call is modelled.
RefererUnused ==
    /\ ifd_args = [unused |-> TRUE]
    /\ ifd = [unused |-> TRUE]

\* The variable of the timed image resolution while none is modelled.
ResolveUnused == rs = [unused |-> TRUE]

\* Every part of the program but the one named g is not running.
OthersUnused(g) ==
    /\ IF g = "fetch" THEN TRUE ELSE FetchUnused
    /\ IF g = "images" THEN TRUE ELSE ImagesUnused
    /\ IF g = "fallback" THEN TRUE ELSE FallbackUnused
    /\ IF g = "bundle" THEN TRUE ELSE BundleUnused
    /\ IF g = "enrich" THEN TRUE ELSE EnrichUnused
    /\ IF g = "process" THEN TRUE ELSE ProcessUnused
    /\ IF g = "article" THEN TRUE ELSE ArticleUnused
    /\ IF g = "dispatch" THEN TRUE ELSE DispatchUnused
    /\ IF g = "hn" THEN TRUE ELSE HnUnused
    /\ IF g = "forum" THEN TRUE ELSE ForumUnused
    /\ IF g = "referer" THEN TRUE ELSE RefererUnused
    /\ IF g = "resolve" THEN TRUE ELSE ResolveUnused

\* A step of the part named g leaves the variables of every other part alone.
OthersUnchanged(g) ==
    /\ IF g = "fetch" THEN TRUE ELSE UNCHANGED fetchVars
    /\ IF g = "images" THEN TRUE ELSE UNCHANGED imageVars
    /\ IF g = "fallback" THEN TRUE ELSE UNCHANGED fallbackVars
    /\ IF g = "bundle" THEN TRUE ELSE UNCHANGED bundleVars
    /\ IF g = "enrich" THEN TRUE ELSE UNCHANGED enrichVars
    /\ IF g = "process" THEN TRUE ELSE UNCHANGED processVars
    /\ IF g = "article" THEN TRUE ELSE UNCHANGED articleVars
    /\ IF g = "dispatch" THEN TRUE ELSE UNCHANGED dispatchVars
    /\ IF g = "hn" THEN TRUE ELSE UNCHANGED hnVars
    /\ IF g = "forum" THEN TRUE ELSE UNCHANGED forumVars
    /\ IF g = "referer" THEN TRUE ELSE UNCHANGED refererVars
    /\ IF g = "resolve" THEN TRUE ELSE UNCHANGED resolveVars

(***************************************************************************)
(* fetch_with_retry                                                        *)
(***************************************************************************)
\* The non_retry_statuses the call sites pass: None (get_wayback_url, forum
\* pages), {403} (get_article_content), the generic and the forum image sets.
NonRetrySets ==
    { {}, {403}, {400, 401, 403, 404, 451}, {401, 403, 404, 409} }

\* What the server may answer to one GET.
Statuses == {200, 403, 404, 409, 429, 500}

\* Retry-After of a 429: absent, a number of seconds, or not a number
\* (an HTTP date).
RetryAfterHeaders == {None, "1", "5", "date"}

\* The URL a response reports (response.url): the URL asked for, or the
\* target of a redirect.
RequestUrl == "u"
RedirectUrl == "u_redirected"
ResponseUrls == {RequestUrl, RedirectUrl}

RECURSIVE Pow2(_)
Pow2(k) == IF k = 0 THEN 1 ELSE 2 * Pow2(k - 1)

Max(a, b) == IF a >= b THEN a ELSE b

\* A constant instead of an exponential backoff.
BackoffWaitConstant(b, k) == b

\* backoff * (2 ** attempt)
BackoffWait(b, k) == b * Pow2(k)

\* Whether int(...) of the Retry-After header succeeds (it raises ValueError
\* on an HTTP date).
RetryAfterParses(h) == h # "date"

\* int(response.headers.get("Retry-After", 10))
RetryAfterSeconds(h) ==
    CASE h = None -> 10
      [] h = "1" -> 1
      [] h = "5" -> 5

\* The backoff alone, the Retry-After header ignored.
RateLimitWaitNoHeader(ra, b, k) == BackoffWait(b, k)

\* wait_time = max(retry_after, backoff * (2 ** attempt))
RateLimitWait(ra, b, k) == Max(ra, BackoffWait(b, k))

\* The non-retry test dropped: every status >= 400 but 404 is retried.
IsNonRetryNever(status, nonRetry) == FALSE

\* non_retry_statuses and response.status in non_retry_statuses
IsNonRetry(status, nonRetry) == status \in nonRetry

\* if response.status == 404: return None, final_url
IsNotFound(status) == status = 404

\* What fetch_with_retry returns on the paths that leave through an except
\* clause or through the end of the loop: (None, url).
ExhaustedResult(u, fu) == [payload |-> None, url |-> u]

\* What it returns on a terminal status: (None, final_url).
TerminalResult(u, fu) == [payload |-> None, url |-> fu]

\* One entry of the log of attempts: the status received (0 when the request
\* raised before a response), the Retry-After header, and the branch taken.
Outcome(status, header, kind) == [status |-> status, header |-> header, kind |-> kind]

\* The two except clauses: return on the last attempt, else sleep and loop.
FetchExcept(status, header, kind) ==
    /\ outcomes' = Append(outcomes, Outcome(status, header, kind))
    /\ IF attempt + 1 = max_retries
       THEN /\ result' = ExhaustedResult(url, final_url')
            /\ fpc' = "done"
            /\ UNCHANGED <<attempt, sleeps>>
       ELSE /\ sleeps' = Append(sleeps, BackoffWait(backoff, attempt))
            /\ attempt' = attempt + 1
            /\ UNCHANGED <<fpc, result>>

\* range(max_retries) is used up: the return after the loop.
FetchLoopEnd ==
    /\ fpc = "loop"
    /\ attempt >= max_retries
    /\ result' = ExhaustedResult(url, final_url)
    /\ fpc' = "done"
    /\ UNCHANGED <<url, max_retries, backoff, non_retry_statuses, attempt,
                   final_url, requests, outcomes, sleeps>>

\* One iteration whose session.get raises ClientError / TimeoutError before
\* any response.
FetchTransportError ==
    /\ fpc = "loop"
    /\ attempt < max_retries
    /\ requests' = requests + 1
    /\ final_url' = final_url
    /\ FetchExcept(0, None, "transport")
    /\ UNCHANGED <<url, max_retries, backoff, non_retry_statuses>>

\* One iteration whose session.get raises any other exception.
FetchUnexpectedError ==
    /\ fpc = "loop"
    /\ attempt < max_retries
    /\ requests' = requests + 1
    /\ final_url' = final_url
    /\ FetchExcept(0, None, "unexpected")
    /\ UNCHANGED <<url, max_retries, backoff, non_retry_statuses>>

\* One iteration that receives a response: its status, its URL, its
\* Retry-After header, and whether reading the body succeeds.
FetchResponse(status, rurl, header, bodyOk) ==
    /\ fpc = "loop"
    /\ attempt < max_retries
    /\ requests' = requests + 1
    /\ final_url' = rurl
    /\ UNCHANGED <<url, max_retries, backoff, non_retry_statuses>>
    /\ IF status = 429
       THEN IF ~RetryAfterParses(header)
            THEN FetchExcept(status, header, "unexpected")
            ELSE /\ outcomes' = Append(outcomes, Outcome(status, header, "rate_limited"))
                 /\ sleeps' = Append(sleeps,
                        RateLimitWait(RetryAfterSeconds(header), backoff, attempt))
                 /\ attempt' = attempt + 1
                 /\ UNCHANGED <<fpc, result>>
       ELSE IF IsNonRetry(status, non_retry_statuses)
       THEN /\ outcomes' = Append(outcomes, Outcome(status, header, "non_retry"))
            /\ result' = TerminalResult(url, rurl)
            /\ fpc' = "done"
            /\ UNCHANGED <<attempt, sleeps>>
       ELSE IF status >= 400
       THEN IF IsNotFound(status)
            THEN /\ outcomes' = Append(outcomes, Outcome(status, header, "not_found"))
                 /\ result' = TerminalResult(url, rurl)
                 /\ fpc' = "done"
                 /\ UNCHANGED <<attempt, sleeps>>
            ELSE FetchExcept(status, header, "http_error")
       ELSE IF ~bodyOk
       THEN FetchExcept(status, header, "body_error")
       ELSE /\ outcomes' = Append(outcomes, Outcome(status, header, "ok"))
            /\ result' = [payload |-> "payload", url |-> rurl]
            /\ fpc' = "done"
            /\ UNCHANGED <<attempt, sleeps>>

FetchGet ==
    \E status \in Statuses, rurl \in ResponseUrls, header \in RetryAfterHeaders,
       bodyOk \in BOOLEAN :
        /\ (status # 429 => header = None)
        /\ (status # 200 => bodyOk)
        /\ FetchResponse(status, rurl, header, bodyOk)

InitFetch ==
    /\ url = RequestUrl
    /\ max_retries \in 0..MaxRetriesBound
    /\ backoff \in 1..MaxBackoff
    /\ non_retry_statuses \in NonRetrySets
    /\ fpc = "loop"
    /\ attempt = 0
    /\ final_url = url
    /\ requests = 0
    /\ outcomes = <<>>
    /\ sleeps = <<>>
    /\ result = [payload |-> None, url |-> None]
    /\ OthersUnused("fetch")

NextFetch ==
    /\ \/ FetchGet
       \/ FetchTransportError
       \/ FetchUnexpectedError
       \/ FetchLoopEnd
    /\ OthersUnchanged("fetch")

SpecFetch == InitFetch /\ [][NextFetch]_vars

(***************************************************************************)
(* URLs.  A URL string is a record of its parts; wrapped is the URL carried *)
(* in a src= query parameter (query = "src") or behind a view-source:      *)
(* prefix (scheme = "view-source").  scheme "none" stands for None or the  *)
(* empty string, scheme "rel" for a host-relative reference, scheme "" for *)
(* the scheme-less text normalize_url_for_matching returns.                *)
(***************************************************************************)
NoInner == [scheme |-> "none", www |-> FALSE, host |-> "", path |-> "", query |-> ""]

NoUrl == [scheme |-> "none", www |-> FALSE, host |-> "", path |-> "", query |-> "",
          wrapped |-> NoInner]

Http(scheme, www, host, path, query) ==
    [scheme |-> scheme, www |-> www, host |-> host, path |-> path, query |-> query,
     wrapped |-> NoInner]

\* The URL a query parameter or a prefix carries, as a URL of its own.
Outer(inner) ==
    [scheme |-> inner.scheme, www |-> inner.www, host |-> inner.host,
     path |-> inner.path, query |-> inner.query, wrapped |-> NoInner]

Inner(u) ==
    [scheme |-> u.scheme, www |-> u.www, host |-> u.host, path |-> u.path,
     query |-> u.query]

\* https://<host>/proxy?src=<origin>
ProxyOf(host, origin) ==
    [scheme |-> "https", www |-> FALSE, host |-> host, path |-> "/proxy",
     query |-> "src", wrapped |-> Inner(origin)]

ViewSourceOf(u) ==
    [scheme |-> "view-source", www |-> FALSE, host |-> "", path |-> "", query |-> "",
     wrapped |-> Inner(u)]

DataUri == [NoUrl EXCEPT !.scheme = "data"]

IsNone(u) == u.scheme = "none"

\* The words of the junk lists a path contains.
PathKeywords(path) ==
    CASE path = "/a/spacer.gif" -> {"spacer"}
      [] path = "/a/avatar.png" -> {"avatar"}
      [] OTHER -> {}

\* Every keyword anywhere in the URL text: its path and the URL it carries.
UrlKeywords(u) == PathKeywords(u.path) \cup PathKeywords(u.wrapped.path)

\* re: \.(jpe?g|png|webp|gif|svg)$ on the path
HasImageExt(path) ==
    path \in {"/a/photo.jpg", "/b/photo.jpg", "/a/photo_1.jpg", "/a/copy.jpg",
              "/a/spacer.gif", "/a/avatar.png", "/a/x.jpg", "/attachments/pic.jpg",
              "/a/strip.jpg", "/a/dot.gif"}

\* "imrs.php" / "resizer" / "proxy" in the path
IsProxyPath(path) == path = "/proxy"

\* "/attachments/" in the URL
IsAttachment(u) == u.path \in {"/attachments/pic.jpg", "/attachments/pic-jpg.123"}

\* re: /attachments/[^/]+\.\d+/? on an href (a XenForo viewer page)
IsViewerLink(u) == u.path = "/attachments/pic-jpg.123"

\* "washingtonpost.com/wp-apps/imrs.php" in the URL
IsWapoProxy(u) == u.host = "washingtonpost.com" /\ IsProxyPath(u.path)

\* "?" in url
HasQuery(u) == u.query # ""

\* url.split("?", 1)[0]
StripQuery(u) == [u EXCEPT !.query = "", !.wrapped = NoInner]

\* urljoin raises ValueError ("Invalid IPv6 URL") for a network location with
\* an unmatched bracket.
UrlJoinRaises(ref) == ref.host = "[site.example"

\* urljoin(base_url, ref): an absolute reference is kept, a host-relative one
\* takes scheme and host of the base.
UrlJoin(base, ref) ==
    IF ref.scheme = "rel"
    THEN [ref EXCEPT !.scheme = base.scheme, !.www = base.www, !.host = base.host]
    ELSE ref

\* normalize_url_for_matching: scheme, leading www., query and fragment
\* dropped; "" for an empty URL.
normalize_url_for_matching(u) ==
    IF IsNone(u) THEN NoUrl
    ELSE IF u.scheme \in {"http", "https", "rel", ""}
    THEN [scheme |-> "", www |-> FALSE, host |-> u.host, path |-> u.path,
          query |-> "", wrapped |-> NoInner]
    ELSE StripQuery(u)

\* ImageProcessor._extract_origin_from_proxy (profile = None)
ExtractOriginFromProxy(u) ==
    IF u.scheme \notin {"http", "https"} THEN NoUrl
    ELSE IF IsProxyPath(u.path)
    THEN IF u.query = "src" THEN Outer(u.wrapped) ELSE NoUrl
    ELSE IF u.query = "w=600" /\ HasImageExt(u.path)
    THEN StripQuery(u)
    ELSE NoUrl

\* BaseImageProcessor.is_junk
GenericBadKeywords == {"spacer", "avatar"}
IsJunkGeneric(u) ==
    \/ IsNone(u)
    \/ u.scheme = "data"
    \/ UrlKeywords(u) \cap GenericBadKeywords # {}

\* ForumImageProcessor.is_junk
ForumBadKeywords == {"spacer"}
IsJunkForum(u) ==
    \/ IsNone(u)
    \/ u.scheme \in {"data", "view-source"}
    \/ UrlKeywords(u) \cap ForumBadKeywords # {}

\* final_src.startswith(('data:', 'mailto:', 'javascript:'))
IsNonHttpUri(u) == u.scheme \in {"data", "mailto"}

(***************************************************************************)
(* File names are sequences of text pieces, so that "photo" + "_1" and the *)
(* basename "photo_1" are the same text.                                   *)
(***************************************************************************)
\* sanitize_filename(os.path.splitext(os.path.basename(urlparse(u).path))[0])
FileStem(u) ==
    CASE u.path \in {"/a/photo.jpg", "/b/photo.jpg"} -> <<"photo">>
      [] u.path = "/a/photo_1.jpg" -> <<"photo", "_1">>
      [] u.path = "/a/copy.jpg" -> <<"copy">>
      [] u.path = "/a/strip.jpg" -> <<"strip">>
      [] u.path = "/a/spacer.gif" -> <<"spacer">>
      [] u.path = "/a/dot.gif" -> <<"dot">>
      [] u.path = "/a/avatar.png" -> <<"avatar">>
      [] u.path = "/a/x.jpg" -> <<"x">>
      [] u.path = "/attachments/pic.jpg" -> <<"pic">>
      [] u.path = "/attachments/pic-jpg.123" -> <<"pic-jpg">>
      [] u.path = "/proxy" -> <<"proxy">>
      [] OTHER -> <<>>

\* len(fname_base) < 3
StemTooShort(stem) == stem \in {<<>>, <<"x">>}

\* os.path.splitext(path)[1]
PathExt(u) ==
    CASE u.path \in {"/a/photo.jpg", "/b/photo.jpg", "/a/photo_1.jpg", "/a/copy.jpg",
                     "/a/x.jpg", "/attachments/pic.jpg", "/a/strip.jpg"} -> ".jpg"
      [] u.path \in {"/a/spacer.gif", "/a/dot.gif"} -> ".gif"
      [] u.path = "/a/avatar.png" -> ".png"
      [] u.path = "/attachments/pic-jpg.123" -> ".123"
      [] OTHER -> ""

\* f"img_{abs(hash(url))}": a name that tells the URLs apart.
HashStem(u) ==
    <<"img_", u.scheme, IF u.www THEN "www." ELSE "", u.host, u.path, u.query,
      u.wrapped.host, u.wrapped.path>>

\* "_{count}"
CounterText == <<"_1", "_2", "_3", "_4", "_5", "_6", "_7", "_8", "_9">>

\* f"{IMAGE_DIR_IN_EPUB}/{fname_base}{ext}" and, for count > 0,
\* f"{IMAGE_DIR_IN_EPUB}/{fname_base}_{count}{ext}"
FileName(stem, count, ext) ==
    <<"images/">> \o stem \o (IF count = 0 THEN <<>> ELSE <<CounterText[count]>>)
        \o <<ext>>

NameTaken(assets, fname) == \E i \in 1..Len(assets) : assets[i].filename = fname

RECURSIVE FirstFreeCount(_, _, _, _)
FirstFreeCount(assets, stem, ext, count) ==
    IF NameTaken(assets, FileName(stem, count, ext))
    THEN FirstFreeCount(assets, stem, ext, count + 1)
    ELSE count

\* The derived name taken as it is, the list not searched.
UniqueFileNameUnchecked(assets, stem, ext) == FileName(stem, 0, ext)

\* count = 0; while any(a.filename == fname for a in book_assets): count += 1
UniqueFileName(assets, stem, ext) ==
    FileName(stem, FirstFreeCount(assets, stem, ext, 0), ext)

(***************************************************************************)
(* Image bytes, the server, and optimize_and_get_details.                  *)
(* img names the picture, large says len(data) >= 12 KiB, pixel says a     *)
(* width or height below 20, enc whether the bytes were re-encoded.        *)
(***************************************************************************)
NoData == [img |-> "none", large |-> FALSE, pixel |-> FALSE, fmt |-> "", enc |-> ""]

Picture(img, large, pixel, fmt) ==
    [img |-> img, large |-> large, pixel |-> pixel, fmt |-> fmt, enc |-> "orig"]

\* The bytes each path serves.  /a/copy.jpg serves the very bytes of
\* /a/photo.jpg; the resizer (?w=600) serves a smaller rendition.
PathContent(path, query) ==
    CASE path = "/a/photo.jpg" /\ query = "w=600" -> Picture("B1w", TRUE, FALSE, "jpeg")
      [] path = "/a/photo.jpg" /\ query # "w=600" -> Picture("B1", TRUE, FALSE, "jpeg")
      [] path = "/a/copy.jpg" -> Picture("B1", TRUE, FALSE, "jpeg")
      [] path = "/b/photo.jpg" -> Picture("B2", TRUE, FALSE, "jpeg")
      [] path = "/a/photo_1.jpg" -> Picture("B3", FALSE, FALSE, "jpeg")
      [] path = "/a/x.jpg" -> Picture("B5", TRUE, FALSE, "jpeg")
      [] path = "/attachments/pic.jpg" -> Picture("B6", TRUE, FALSE, "jpeg")
      [] path = "/attachments/pic-jpg.123" -> Picture("B6", TRUE, FALSE, "jpeg")
      [] path = "/a/spacer.gif" -> Picture("gif1x1", FALSE, TRUE, "gif")
      [] path = "/a/dot.gif" -> Picture("gif1x1", FALSE, TRUE, "gif")
      [] path = "/a/avatar.png" -> Picture("B4", FALSE, FALSE, "png")
      [] path = "/a/strip.jpg" -> Picture("B7", TRUE, TRUE, "jpeg")
      [] OTHER -> NoData

\* What a successful GET of the URL returns; a proxy passes the bytes of the
\* URL it wraps through.
ServerContent(u) ==
    IF u.scheme \notin {"http", "https"} THEN NoData
    ELSE IF IsProxyPath(u.path)
    THEN IF u.query = "src" THEN PathContent(u.wrapped.path, u.wrapped.query) ELSE NoData
    ELSE PathContent(u.path, u.query)

\* mimetypes.guess_extension(content_type) or '.img'
ExtOfFormat(fmt) ==
    CASE fmt = "jpeg" -> ".jpg"
      [] fmt = "gif" -> ".gif"
      [] fmt = "png" -> ".png"
      [] OTHER -> ".img"

\* BaseImageProcessor.optimize_and_get_details: (ext, bytes, error)
optimize_and_get_details(data) ==
    IF data = NoData
    THEN [ext |-> "", data |-> NoData, err |-> "No Data"]
    ELSE IF ~data.large
    THEN [ext |-> ExtOfFormat(data.fmt), data |-> data, err |-> None]
    ELSE IF data.pixel
    THEN [ext |-> "", data |-> NoData, err |-> "Tracking Pixel"]
    ELSE [ext |-> IF data.fmt = "png" THEN ".png" ELSE ".jpg",
          data |-> [data EXCEPT !.enc = "opt"], err |-> None]

(***************************************************************************)
(* <img> elements and the candidate list of ImageProcessor.                *)
(***************************************************************************)
\* An <img>: src, data-src, srcset as (width, URL) entries in document order,
\* and the href of an enclosing <a>.  data-srcset, data-lazy and data-url are
\* read the way srcset and data-src are and are left out.
Img(src, data_src, srcset, link_href) ==
    [src |-> src, data_src |-> data_src, srcset |-> srcset, link_href |-> link_href]

RECURSIVE InsertByWidth(_, _)
InsertByWidth(sorted, entry) ==
    IF sorted = <<>> THEN <<entry>>
    ELSE IF Head(sorted).w >= entry.w
    THEN <<Head(sorted)>> \o InsertByWidth(Tail(sorted), entry)
    ELSE <<entry>> \o sorted

\* pairs.sort(key=lambda x: x[0], reverse=True): stable, widest first
RECURSIVE SortByWidth(_)
SortByWidth(entries) ==
    IF entries = <<>> THEN <<>>
    ELSE InsertByWidth(SortByWidth(SubSeq(entries, 1, Len(entries) - 1)),
                       entries[Len(entries)])

\* BaseImageProcessor.parse_srcset_with_width
parse_srcset_with_width(srcset) == SortByWidth(srcset)

\* BaseImageProcessor.parse_srcset
parse_srcset(srcset) ==
    [i \in 1..Len(srcset) |-> SortByWidth(srcset)[i].url]

Contains(seq, x) == \E i \in 1..Len(seq) : seq[i] = x

IsJunk(who, u) == IF who = "generic" THEN IsJunkGeneric(u) ELSE IsJunkForum(u)

\* for c in candidates: if not is_junk(c): final_src = c; break
RECURSIVE FirstNonJunk(_, _)
FirstNonJunk(who, seq) ==
    IF seq = <<>> THEN NoUrl
    ELSE IF ~IsJunk(who, Head(seq)) THEN Head(seq)
    ELSE FirstNonJunk(who, Tail(seq))

\* ImageProcessor.process_images._process_tag, lines 576-603: the reference
\* the element is resolved through.
GenericFinalSrc(e) ==
    LET candidates == (IF IsNone(e.data_src) THEN <<>> ELSE <<e.data_src>>)
                          \o parse_srcset(e.srcset)
        wapo == IF \E i \in 1..Len(e.srcset) : IsWapoProxy(e.srcset[i].url)
                THEN parse_srcset(e.srcset)[1]
                ELSE NoUrl
        good == FirstNonJunk("generic", candidates)
    IN  IF ~IsNone(e.src) /\ ~IsJunkGeneric(e.src) THEN e.src
        ELSE IF ~IsNone(good) THEN good
        ELSE wapo

\* _add_candidate(u, prepend)
AddCandidate(list, u, prepend) ==
    IF IsNone(u) \/ IsJunkGeneric(u) \/ Contains(list, u) THEN list
    ELSE IF prepend THEN <<u>> \o list
    ELSE Append(list, u)

RECURSIVE AddAll(_, _)
AddAll(list, ops) ==
    IF ops = <<>> THEN list
    ELSE AddAll(AddCandidate(list, Head(ops).u, Head(ops).prepend), Tail(ops))

Op(u, prepend) == [u |-> u, prepend |-> prepend]

\* lines 662-676: what one srcset entry adds
SrcsetEntryOps(base, entry) ==
    LET cand_full == UrlJoin(base, entry.url)
    IN  <<Op(cand_full, entry.w >= 600),
          Op(ExtractOriginFromProxy(cand_full), TRUE)>>
        \o (IF ~IsWapoProxy(cand_full) /\ HasQuery(cand_full)
            THEN <<Op(StripQuery(cand_full), FALSE)>>
            ELSE <<>>)

RECURSIVE SrcsetOps(_, _)
SrcsetOps(base, entries) ==
    IF entries = <<>> THEN <<>>
    ELSE SrcsetEntryOps(base, Head(entries)) \o SrcsetOps(base, Tail(entries))

\* lines 678-681: the origin of every candidate collected so far
OriginOps(list) ==
    [i \in 1..Len(list) |-> Op(ExtractOriginFromProxy(list[i]), TRUE)]

\* ImageProcessor.process_images._process_tag, lines 628-682: candidate_urls
\* (the element is in no lede-image figure).
CandidateUrls(base, e, full_url) ==
    LET ops == <<Op(ExtractOriginFromProxy(full_url), TRUE)>>
                 \o (IF ~IsJunkGeneric(full_url)
                     THEN <<Op(full_url, TRUE)>>
                             \o (IF HasQuery(full_url)
                                 THEN <<Op(StripQuery(full_url), FALSE)>>
                                 ELSE <<>>)
                     ELSE <<>>)
                 \o SrcsetOps(base, parse_srcset_with_width(e.srcset))
        first == AddAll(<<>>, ops)
    IN  AddAll(first, OriginOps(first))

(***************************************************************************)
(* Assets, and the two lookup tables of ForumImageProcessor.process_images.*)
(***************************************************************************)
\* ImageAsset (uid is a function of filename, media_type of the bytes)
Asset(filename, content, original_url, alt_urls) ==
    [filename |-> filename, content |-> content, original_url |-> original_url,
     alt_urls |-> alt_urls]

RECURSIVE Dedup(_)
\* list(dict.fromkeys([u for u in alt_urls if u]))
Dedup(seq) ==
    IF seq = <<>> THEN <<>>
    ELSE LET rest == Dedup(SubSeq(seq, 1, Len(seq) - 1))
             last == seq[Len(seq)]
         IN  IF IsNone(last) \/ Contains(rest, last) THEN rest ELSE Append(rest, last)

\* u, and u.split("?", 1)[0] when u has a query
WithStripped(u) ==
    IF IsNone(u) THEN <<>>
    ELSE IF HasQuery(u) THEN <<u, StripQuery(u)>>
    ELSE <<u>>

\* _hash_bytes: the SHA-1 of the bytes tells different bytes apart.
HashBytes(data) == data

\* The keys add_to_map files an asset under.
MapKeys(u) ==
    IF IsNone(u) THEN {}
    ELSE {u, normalize_url_for_matching(u)}
            \cup (IF IsAttachment(u)
                  THEN {StripQuery(u), normalize_url_for_matching(StripQuery(u))}
                  ELSE {})

\* add_to_map(url_val, asset_obj), the asset named by its index in book_assets
\* (0: no asset, nothing is filed)
AddToMap(map, u, idx) ==
    IF idx = 0 THEN map
    ELSE [k \in DOMAIN map \cup MapKeys(u) |-> IF k \in MapKeys(u) THEN idx ELSE map[k]]

RECURSIVE AddAllToMap(_, _, _)
AddAllToMap(map, urls, idx) ==
    IF urls = <<>> THEN map
    ELSE AddAllToMap(AddToMap(map, Head(urls), idx), Tail(urls), idx)

EmptyMap == [k \in {} |-> 0]

MapGet(map, k) == IF k \in DOMAIN map THEN map[k] ELSE 0

\* lines 933-945: both tables filled from the assets the list already holds
RECURSIVE PreloadMapOfAssets(_, _)
PreloadMapOfAssets(assets, n) ==
    IF n = 0 THEN EmptyMap
    ELSE AddAllToMap(PreloadMapOfAssets(assets, n - 1),
                     <<assets[n].original_url>> \o assets[n].alt_urls, n)

RECURSIVE HashMapOfAssets(_, _)
HashMapOfAssets(assets, n) ==
    IF n = 0 THEN EmptyMap
    ELSE LET m == HashMapOfAssets(assets, n - 1)
             h == HashBytes(assets[n].content)
         IN  IF assets[n].content = NoData THEN m
             ELSE [k \in DOMAIN m \cup {h} |-> IF k = h THEN n ELSE m[k]]

\* A preloaded asset hint (source.assets): its URLs and its bytes.
Hint(original_url, canonical_url, extra, content) ==
    [original_url |-> original_url, viewer_url |-> NoUrl,
     canonical_url |-> canonical_url, extra |-> extra, content |-> content]

\* hint_urls = [original_url, viewer_url, canonical_url, url, src]
HintUrls(h) == <<h.original_url, h.viewer_url, h.canonical_url, h.extra>>

\* lines 947-951: every hint URL filed under the asset it already maps to
RECURSIVE AddHintUrls(_, _)
AddHintUrls(map, urls) ==
    IF urls = <<>> THEN map
    ELSE LET h == Head(urls)
             target == IF MapGet(map, h) # 0 THEN MapGet(map, h)
                       ELSE MapGet(map, normalize_url_for_matching(h))
         IN  AddHintUrls(IF IsNone(h) THEN map ELSE AddToMap(map, h, target), Tail(urls))

RECURSIVE AddHints(_, _)
AddHints(map, hints) ==
    IF hints = <<>> THEN map
    ELSE AddHints(AddHintUrls(map, HintUrls(Head(hints))), Tail(hints))

\* ForumDriver.prepare_book_data, lines 42-82: one preloaded asset seeded
SeedOne(assets, a) ==
    LET url_like == IF ~IsNone(a.canonical_url) THEN a.canonical_url
                    ELSE IF ~IsNone(a.original_url) THEN a.original_url
                    ELSE a.viewer_url
        stem0 == FileStem(url_like)
        stem == IF StemTooShort(stem0)
                THEN HashStem(IF ~IsNone(a.original_url) THEN a.original_url
                              ELSE a.viewer_url)
                ELSE stem0
        ext == IF PathExt(url_like) # "" THEN PathExt(url_like)
               ELSE ExtOfFormat(a.content.fmt)
        alt == WithStripped(a.original_url) \o WithStripped(a.viewer_url)
                  \o WithStripped(a.canonical_url)
    IN  IF a.content = NoData \/ url_like.scheme \notin {"http", "https"}
        THEN assets
        ELSE Append(assets,
                    Asset(UniqueFileName(assets, stem, ext), a.content, url_like, alt))

RECURSIVE SeedAssets(_, _)
SeedAssets(assets, hints) ==
    IF hints = <<>> THEN assets
    ELSE SeedAssets(SeedOne(assets, Head(hints)), Tail(hints))

(***************************************************************************)
(* One document: its <img> elements are resolved by one or several         *)
(* process_images calls on the same asset list.  Each call gathers one     *)
(* _process_tag task per element: the tasks run their synchronous head in  *)
(* document order, are suspended inside fetch_image_data, and are resumed  *)
(* in any order.                                                           *)
(***************************************************************************)
Tags == 1..NumTags

\* base_url: the page the elements are on.
PageUrl == Http("https", FALSE, "site.example", "/thread", "")

UrlA == Http("https", FALSE, "site.example", "/a/photo.jpg", "")
UrlAVariant == Http("http", TRUE, "site.example", "/a/photo.jpg", "v=1")
UrlAResized == Http("https", FALSE, "site.example", "/a/photo.jpg", "w=600")
UrlARelative == Http("rel", FALSE, "", "/a/photo.jpg", "")
UrlAProxied == ProxyOf("cdn.example", UrlA)
UrlB == Http("https", FALSE, "site.example", "/b/photo.jpg", "")
UrlCopy == Http("https", FALSE, "site.example", "/a/copy.jpg", "")
UrlPhoto1 == Http("https", FALSE, "site.example", "/a/photo_1.jpg", "")
UrlSpacer == Http("https", FALSE, "site.example", "/a/spacer.gif", "")
UrlAttachment == Http("https", FALSE, "site.example", "/attachments/pic.jpg", "v=1")
UrlViewer == Http("https", FALSE, "site.example", "/attachments/pic-jpg.123", "")
UrlStrip == Http("https", FALSE, "site.example", "/a/strip.jpg", "")
UrlMalformed == Http("https", FALSE, "[site.example", "/a/photo.jpg", "")
UrlDot == Http("https", FALSE, "site.example", "/a/dot.gif", "")

\* The elements a document is made of.
ImgElements ==
    { Img(UrlA, NoUrl, <<>>, NoUrl),
      Img(UrlAVariant, NoUrl, <<>>, NoUrl),
      Img(UrlAProxied, NoUrl, <<>>, NoUrl),
      Img(UrlB, NoUrl, <<>>, NoUrl),
      Img(UrlCopy, NoUrl, <<>>, NoUrl),
      Img(UrlPhoto1, NoUrl, <<>>, NoUrl),
      Img(UrlSpacer, DataUri, <<[w |-> 1, url |-> UrlSpacer]>>, NoUrl),
      Img(UrlSpacer, UrlARelative, <<>>, NoUrl),
      Img(DataUri, NoUrl, <<[w |-> 400, url |-> UrlAResized], [w |-> 800, url |-> UrlA]>>,
          NoUrl),
      Img(ViewSourceOf(UrlB), NoUrl, <<>>, NoUrl),
      Img(UrlStrip, NoUrl, <<>>, NoUrl),
      Img(UrlMalformed, NoUrl, <<>>, NoUrl),
      Img(UrlAttachment, NoUrl, <<>>, UrlViewer) }

\* The preloaded asset hints a forum source may carry.
HintLists ==
    { <<>>,
      << Hint(NoUrl, UrlA, NoUrl, Picture("B1", TRUE, FALSE, "jpeg")),
         Hint(NoUrl, UrlB, NoUrl, Picture("B2", TRUE, FALSE, "jpeg")) >>,
      << Hint(NoUrl, NoUrl, UrlPhoto1, Picture("B3", FALSE, FALSE, "jpeg")) >> }

NoTask == [full_url |-> NoUrl, viewer_url |-> NoUrl, attachment_base |-> NoUrl,
           cands |-> <<>>, idx |-> 0]

TagsOfBatch(b) == {t \in Tags : batch_of[t] = b}

\* The next task of the running call to get its first run.
NextToStart(t) ==
    /\ phase = "running"
    /\ batch_of[t] = cur_batch
    /\ pc[t] = "waiting"
    /\ \A o \in TagsOfBatch(cur_batch) : o < t => pc[o] # "waiting"

\* A suspended task may resume once every task of the call had its first run.
MayResume(t) ==
    /\ phase = "running"
    /\ batch_of[t] = cur_batch
    /\ pc[t] = "fetching"
    /\ \A o \in TagsOfBatch(cur_batch) : pc[o] # "waiting"

Finish(t, name, kind) ==
    /\ pc' = [pc EXCEPT ![t] = "done"]
    /\ tag_src' = [tag_src EXCEPT ![t] = name]
    /\ how' = [how EXCEPT ![t] = kind]

\* fetch_image_data(session, u, ...) is called for tag t.
CallFetch(t, u) == net_calls' = net_calls \cup {[tag |-> t, url |-> u]}

\* The first asset whose original_url is the URL (0: none).
RECURSIVE FindByOriginalUrl(_, _, _)
FindByOriginalUrl(assets, u, i) ==
    IF i > Len(assets) THEN 0
    ELSE IF assets[i].original_url = u THEN i
    ELSE FindByOriginalUrl(assets, u, i + 1)

\* candidate_urls[:IMG_MAX_CANDIDATES]
Limit(cands) == IF Len(cands) > IMG_MAX_CANDIDATES THEN IMG_MAX_CANDIDATES ELSE Len(cands)

\* except Exception as e: log.debug(...) (lines 732-733, 1207-1208): the task
\* returns; without the clause the exception would leave the task and gather
\* would raise it out of process_images.
ExceptClauseMissing == "raised"
ExceptClause == "error"

\* ImageProcessor._process_tag up to its first await (lines 566-690).
GenericStart(t) ==
    /\ proc = "generic"
    /\ NextToStart(t)
    /\ LET e == elements[t]
           final_src == GenericFinalSrc(e)
           full_url == UrlJoin(PageUrl, final_src)
           existing == FindByOriginalUrl(book_assets, full_url, 1)
           cands == CandidateUrls(PageUrl, e, full_url)
       IN  IF IsNone(final_src) \/ IsNonHttpUri(final_src)
           THEN /\ Finish(t, <<>>, "skipped")
                /\ UNCHANGED <<task, net_calls>>
           ELSE IF UrlJoinRaises(final_src)
           THEN /\ Finish(t, <<>>, ExceptClause)
                /\ UNCHANGED <<task, net_calls>>
           ELSE IF existing # 0
           THEN /\ Finish(t, book_assets[existing].filename, "existing")
                /\ UNCHANGED <<task, net_calls>>
           ELSE IF cands = <<>>
           THEN /\ Finish(t, <<>>, "failed")
                /\ task' = [task EXCEPT ![t] = [NoTask EXCEPT !.full_url = full_url]]
                /\ UNCHANGED net_calls
           ELSE /\ pc' = [pc EXCEPT ![t] = "fetching"]
                /\ task' = [task EXCEPT ![t] =
                       [NoTask EXCEPT !.full_url = full_url, !.cands = cands, !.idx = 1]]
                /\ CallFetch(t, cands[1])
                /\ UNCHANGED <<tag_src, how>>
    /\ UNCHANGED <<proc, elements, batch_of, preloaded_assets, cur_batch, phase,
                   book_assets, hash_map, preload_map>>

\* The asset ImageProcessor mints (lines 704-721).
GenericNewAsset(assets, cands, effective_url, ext, final_data) ==
    LET stem0 == FileStem(effective_url)
        stem == IF StemTooShort(stem0) THEN HashStem(effective_url) ELSE stem0
    IN  Asset(UniqueFileName(assets, stem, ext), final_data, effective_url, cands)

\* ImageProcessor._process_tag resumed with the answer of fetch_image_data for
\* its current candidate (lines 690-730): got says whether the fetch yielded
\* bytes, late whether the per-image budget is used up by then.
GenericFetchReturn(t, got, late) ==
    /\ proc = "generic"
    /\ MayResume(t)
    /\ LET cand == task[t].cands[task[t].idx]
           data == IF got THEN ServerContent(cand) ELSE NoData
           opt == optimize_and_get_details(data)
           next == task[t].idx + 1
       IN  IF data # NoData /\ opt.err = None
           THEN LET asset == GenericNewAsset(book_assets, task[t].cands, cand,
                                             opt.ext, opt.data)
                IN  /\ book_assets' = Append(book_assets, asset)
                    /\ Finish(t, asset.filename, "new")
                    /\ UNCHANGED <<task, net_calls>>
           ELSE IF next <= Limit(task[t].cands) /\ ~late
           THEN /\ task' = [task EXCEPT ![t].idx = next]
                /\ CallFetch(t, task[t].cands[next])
                /\ UNCHANGED <<book_assets, pc, tag_src, how>>
           ELSE /\ Finish(t, <<>>, "failed")
                /\ UNCHANGED <<book_assets, task, net_calls>>
    /\ UNCHANGED <<proc, elements, batch_of, preloaded_assets, cur_batch, phase,
                   hash_map, preload_map>>

\* ForumImageProcessor._process_tag, lines 987-1008: the reference the
\* element is resolved through; a junk src is taken when nothing else is left.
ForumFinalSrc(e) ==
    LET candidates == (IF IsNone(e.data_src) THEN <<>> ELSE <<e.data_src>>)
                          \o parse_srcset(e.srcset)
                          \o (IF IsNone(e.link_href) THEN <<>> ELSE <<e.link_href>>)
        good == FirstNonJunk("forum", candidates)
    IN  IF ~IsNone(e.src) /\ ~IsJunkForum(e.src) THEN e.src
        ELSE IF ~IsNone(good) THEN good
        ELSE e.src

\* final_src.replace("view-source:", "", 1)
StripViewSource(u) == IF u.scheme = "view-source" THEN Outer(u.wrapped) ELSE u

\* "/avatar" in full_url or "/avatars/" in full_url
IsAvatar(u) == "avatar" \in UrlKeywords(u)

\* re \.(jpe?g|png|webp|gif|bmp)(\?|$) found in full_url, or "attachments" or
\* "image" in it
IsImageLike(u) == HasImageExt(u.path) \/ HasImageExt(u.wrapped.path) \/ IsAttachment(u)

\* lines 1015-1040: the URLs the element is known by
ForumUrls(e) ==
    LET final_src == StripViewSource(ForumFinalSrc(e))
        link_href == StripViewSource(e.link_href)
        full_url == UrlJoin(PageUrl, final_src)
        attachment_base == IF IsAttachment(full_url) THEN StripQuery(full_url) ELSE NoUrl
        viewer_url == IF ~IsNone(link_href) /\ IsViewerLink(link_href)
                      THEN UrlJoin(PageUrl, link_href)
                      ELSE attachment_base
    IN  [NoTask EXCEPT !.full_url = full_url, !.viewer_url = viewer_url,
                       !.attachment_base = attachment_base,
                       !.cands = <<IF IsNone(viewer_url) THEN full_url ELSE viewer_url>>,
                       !.idx = 1]

\* lines 1043-1058: the asset preload_map has for one of urls_to_check (0: none)
RECURSIVE PreloadLookup(_, _)
PreloadLookup(map, urls) ==
    IF urls = <<>> THEN 0
    ELSE IF IsNone(Head(urls)) THEN PreloadLookup(map, Tail(urls))
    ELSE IF Head(urls) \in DOMAIN map THEN map[Head(urls)]
    ELSE IF normalize_url_for_matching(Head(urls)) \in DOMAIN map
    THEN map[normalize_url_for_matching(Head(urls))]
    ELSE PreloadLookup(map, Tail(urls))

\* _url_same
UrlSame(lhs, rhs) ==
    /\ ~IsNone(normalize_url_for_matching(lhs))
    /\ ~IsNone(normalize_url_for_matching(rhs))
    /\ normalize_url_for_matching(lhs) = normalize_url_for_matching(rhs)

\* _matches_asset
MatchesAsset(a, urls) ==
    \E c \in {urls.full_url, urls.viewer_url, urls.attachment_base} :
        \E i \in 1..(Len(a.alt_urls) + 1) :
            UrlSame(c, (<<a.original_url>> \o a.alt_urls)[i])

\* next((a for a in book_assets if _matches_asset(a)), None)
RECURSIVE FindMatchingAsset(_, _, _)
FindMatchingAsset(assets, urls, i) ==
    IF i > Len(assets) THEN 0
    ELSE IF MatchesAsset(assets[i], urls) THEN i
    ELSE FindMatchingAsset(assets, urls, i + 1)

\* same(u, v), lines 1097-1102
Same(u, v) ==
    /\ ~IsNone(u)
    /\ ~IsNone(v)
    /\ \/ u = v
       \/ HasQuery(u) /\ StripQuery(u) = v
       \/ HasQuery(v) /\ StripQuery(v) = u

\* lines 1103-1109
HintMatches(h, urls) ==
    \/ \E v \in {urls.full_url, urls.viewer_url, urls.attachment_base} :
           Same(h.original_url, v) \/ Same(h.canonical_url, v) \/ Same(h.extra, v)
    \/ \E v \in {urls.full_url, urls.viewer_url} : Same(h.viewer_url, v)

\* lines 1091-1111: the first matching hint (0: none)
RECURSIVE FindHint(_, _, _)
FindHint(hints, urls, i) ==
    IF i > Len(hints) THEN 0
    ELSE IF HintMatches(hints[i], urls) THEN i
    ELSE FindHint(hints, urls, i + 1)

RECURSIVE Flatten(_)
Flatten(seqs) == IF seqs = <<>> THEN <<>> ELSE Head(seqs) \o Flatten(Tail(seqs))

\* The asset minted from a hint's bytes (lines 1130-1146).
ForumHintAsset(assets, h, urls) ==
    LET stem0 == FileStem(urls.full_url)
        stem == IF StemTooShort(stem0) THEN HashStem(urls.full_url) ELSE stem0
        alt == Flatten(<<WithStripped(h.original_url), WithStripped(h.viewer_url),
                         WithStripped(h.canonical_url), WithStripped(h.extra),
                         WithStripped(urls.full_url), WithStripped(urls.attachment_base),
                         WithStripped(urls.viewer_url)>>)
    IN  Asset(UniqueFileName(assets, stem, ".img"), h.content, urls.full_url, Dedup(alt))

\* The asset minted from fetched bytes (lines 1175-1196).
ForumNewAsset(assets, urls, ext, final_data) ==
    LET stem0 == FileStem(urls.full_url)
        stem == IF StemTooShort(stem0) THEN HashStem(urls.full_url) ELSE stem0
        alt == WithStripped(urls.full_url) \o WithStripped(urls.viewer_url)
                  \o (IF IsNone(urls.attachment_base) THEN <<>>
                      ELSE <<urls.attachment_base>>)
    IN  Asset(UniqueFileName(assets, stem, ext), final_data, urls.full_url, Dedup(alt))

\* book_assets.append(asset); hash_map[hashed] = asset; add_to_map for every
\* alt_url
ForumAppend(t, asset, kind) ==
    /\ book_assets' = Append(book_assets, asset)
    /\ hash_map' = [k \in DOMAIN hash_map \cup {HashBytes(asset.content)} |->
                       IF k = HashBytes(asset.content) THEN Len(book_assets) + 1
                       ELSE hash_map[k]]
    /\ preload_map' = AddAllToMap(preload_map, asset.alt_urls, Len(book_assets) + 1)
    /\ Finish(t, asset.filename, kind)

ForumReuse(t, idx, kind) ==
    /\ Finish(t, book_assets[idx].filename, kind)
    /\ UNCHANGED <<book_assets, hash_map, preload_map>>

\* ForumImageProcessor._process_tag up to its first await (lines 976-1158).
ForumStart(t) ==
    /\ proc = "forum"
    /\ NextToStart(t)
    /\ LET e == elements[t]
           final_src == ForumFinalSrc(e)
           urls == ForumUrls(e)
           matched == PreloadLookup(preload_map,
                          <<urls.full_url, urls.viewer_url, urls.attachment_base>>)
           existing == FindMatchingAsset(book_assets, urls, 1)
           hint == FindHint(preloaded_assets, urls, 1)
       IN  /\ task' = [task EXCEPT ![t] = urls]
           /\ IF IsNone(final_src) \/ IsNonHttpUri(final_src)
              THEN /\ Finish(t, <<>>, "skipped")
                   /\ UNCHANGED <<book_assets, hash_map, preload_map, net_calls>>
              ELSE IF UrlJoinRaises(StripViewSource(final_src))
              THEN /\ Finish(t, <<>>, ExceptClause)
                   /\ UNCHANGED <<book_assets, hash_map, preload_map, net_calls>>
              ELSE IF IsAvatar(urls.full_url) \/ ~IsImageLike(urls.full_url)
              THEN /\ Finish(t, <<>>, "skipped")
                   /\ UNCHANGED <<book_assets, hash_map, preload_map, net_calls>>
              ELSE IF matched # 0
              THEN /\ ForumReuse(t, matched, "existing")
                   /\ UNCHANGED net_calls
              ELSE IF existing # 0
              THEN /\ ForumReuse(t, existing, "existing")
                   /\ UNCHANGED net_calls
              ELSE IF hint # 0 /\ preloaded_assets[hint].content # NoData
              THEN /\ UNCHANGED net_calls
                   /\ IF HashBytes(preloaded_assets[hint].content) \in DOMAIN hash_map
                      THEN ForumReuse(t,
                               hash_map[HashBytes(preloaded_assets[hint].content)],
                               "same_bytes")
                      ELSE ForumAppend(t, ForumHintAsset(book_assets,
                                              preloaded_assets[hint], urls), "new_from_hint")
              ELSE /\ pc' = [pc EXCEPT ![t] = "fetching"]
                   /\ CallFetch(t, urls.cands[1])
                   /\ UNCHANGED <<book_assets, hash_map, preload_map, tag_src, how>>
    /\ UNCHANGED <<proc, elements, batch_of, preloaded_assets, cur_batch, phase>>

\* ForumImageProcessor._process_tag resumed with the answer of
\* fetch_image_data (lines 1158-1205): got says whether it yielded bytes.
ForumFetchReturn(t, got) ==
    /\ proc = "forum"
    /\ MayResume(t)
    /\ LET data == IF got THEN ServerContent(task[t].cands[1]) ELSE NoData
           opt == optimize_and_get_details(data)
       IN  IF data = NoData \/ opt.err # None
           THEN /\ Finish(t, <<>>, "failed")
                /\ UNCHANGED <<book_assets, hash_map, preload_map>>
           ELSE IF HashBytes(opt.data) \in DOMAIN hash_map
           THEN ForumReuse(t, hash_map[HashBytes(opt.data)], "same_bytes")
           ELSE ForumAppend(t, ForumNewAsset(book_assets, task[t], opt.ext, opt.data), "new")
    /\ UNCHANGED <<proc, elements, batch_of, preloaded_assets, cur_batch, phase,
                   task, net_calls>>

\* process_images is entered: the forum call builds its two tables.
BeginProcessImages ==
    /\ phase = "idle"
    /\ TagsOfBatch(cur_batch) # {}
    /\ phase' = "running"
    /\ IF proc = "forum"
       THEN /\ preload_map' = AddHints(PreloadMapOfAssets(book_assets, Len(book_assets)),
                                       preloaded_assets)
            /\ hash_map' = HashMapOfAssets(book_assets, Len(book_assets))
       ELSE UNCHANGED <<preload_map, hash_map>>
    /\ UNCHANGED <<proc, elements, batch_of, preloaded_assets, cur_batch, book_assets,
                   pc, task, tag_src, how, net_calls>>

\* gather returns: every task of the call is done.  gather is called without
\* return_exceptions, so an exception that left a task leaves process_images.
EndProcessImages ==
    /\ phase = "running"
    /\ \A t \in TagsOfBatch(cur_batch) : pc[t] = "done"
    /\ cur_batch' = cur_batch + 1
    /\ phase' = IF \E t \in TagsOfBatch(cur_batch) : how[t] = "raised" THEN "raised"
                 ELSE IF TagsOfBatch(cur_batch + 1) = {} THEN "finished" ELSE "idle"
    /\ UNCHANGED <<proc, elements, batch_of, preloaded_assets, book_assets, hash_map,
                   preload_map, pc, task, tag_src, how, net_calls>>

\* The calls find the tags in document order.
BatchAssignments ==
    {b \in [Tags -> 1..NumTags] :
        /\ b[1] = 1
        /\ \A t \in Tags : t > 1 => b[t] \in {b[t - 1], b[t - 1] + 1}}

Init ==
    /\ proc \in {"generic", "forum"}
    /\ elements \in [Tags -> ImgElements]
    /\ batch_of \in BatchAssignments
    /\ preloaded_assets \in (IF proc = "forum" THEN HintLists ELSE {<<>>})
    /\ cur_batch = 1
    /\ phase = "idle"
    /\ book_assets = (IF proc = "forum" THEN SeedAssets(<<>>, preloaded_assets) ELSE <<>>)
    /\ hash_map = EmptyMap
    /\ preload_map = EmptyMap
    /\ pc = [t \in Tags |-> "waiting"]
    /\ task = [t \in Tags |-> NoTask]
    /\ tag_src = [t \in Tags |-> <<>>]
    /\ how = [t \in Tags |-> "pending"]
    /\ net_calls = {}
    /\ OthersUnused("images")

Next ==
    /\ \/ BeginProcessImages
       \/ \E t \in Tags : GenericStart(t)
       \/ \E t \in Tags, got \in BOOLEAN, late \in BOOLEAN : GenericFetchReturn(t, got, late)
       \/ \E t \in Tags : ForumStart(t)
       \/ \E t \in Tags, got \in BOOLEAN : ForumFetchReturn(t, got)
       \/ EndProcessImages
    /\ OthersUnchanged("images")

Spec == Init /\ [][Next]_vars

(***************************************************************************)
(* The handlers that own two HTTP clients: the aiohttp session (through    *)
(* fetch_with_retry or session.get) and requests (through _requests_fetch).*)
(* calls is the order in which one handler call uses them.                 *)
(***************************************************************************)
UrlWikimedia == Http("https", FALSE, "upload.wikimedia.org", "/a/photo.jpg", "")

\* "upload.wikimedia.org" in parsed.netloc
IsWikimedia(u) == u.host = "upload.wikimedia.org"

\* f"{url}?download=1"
DownloadUrl(u) == [u EXCEPT !.query = "download=1"]

\* The image a viewer page shows (_parse_viewer_for_image).
ViewerImageUrl == Http("https", FALSE, "site.example", "/attachments/full.jpg", "")

\* f"{ARCHIVE_ORG_API_BASE}?url={quote(target_url)}" and the snapshot it names
ArchiveApiUrl == Http("https", FALSE, "archive.org", "/wayback/available", "url")
SnapshotUrl == Http("https", FALSE, "web.archive.org", "/web/thread", "")

\* "/attachments/" in target
IsAttachmentTarget(u) == IsAttachment(u) \/ u.path = "/attachments/full.jpg"

Call(client, u, got) == [client |-> client, url |-> u, got |-> got]

\* ForumImageProcessor.fetch_image_data, lines 854-859
ForumTargets(u, viewer_url) ==
    (IF IsNone(viewer_url) THEN <<>> ELSE <<viewer_url>>)
        \o <<u>>
        \o (IF IsAttachmentTarget(u) /\ HasQuery(u) THEN <<StripQuery(u)>> ELSE <<>>)

\* The (url, viewer_url) pairs ForumImageProcessor._process_tag calls
\* fetch_image_data with (line 1158).
ForumFetchArguments ==
    { [url |-> ForumUrls(e).cands[1], viewer_url |-> ForumUrls(e).viewer_url] :
          e \in {x \in ImgElements :
                    /\ ~IsNone(ForumFinalSrc(x))
                    /\ ~IsNonHttpUri(ForumFinalSrc(x))
                    /\ ~UrlJoinRaises(StripViewSource(ForumFinalSrc(x)))
                    /\ IsImageLike(ForumUrls(x).full_url)} }
        \cup {[url |-> UrlAttachment, viewer_url |-> NoUrl]}

FallbackDone(res) ==
    /\ fb_pc' = "done"
    /\ fb_result' = res

\* ImageProcessor.fetch_image_data, lines 257-279: one session.get per target
ImageWikimediaGet(got) ==
    /\ site = "image"
    /\ IsWikimedia(fb_url)
    /\ fb_pc \in {"start", "second"}
    /\ calls' = Append(calls, Call("aiohttp",
                    IF fb_pc = "start" THEN fb_url ELSE DownloadUrl(fb_url), got))
    /\ IF got THEN FallbackDone("payload")
       ELSE IF fb_pc = "start" THEN fb_pc' = "second" /\ UNCHANGED fb_result
       ELSE FallbackDone("none")
    /\ UNCHANGED <<site, fb_url, fb_viewer, fb_targets>>

\* lines 299-305: the headers request of the first referer
ImageFetchHeaders(got) ==
    /\ site = "image"
    /\ ~IsWikimedia(fb_url)
    /\ fb_pc = "start"
    /\ calls' = Append(calls, Call("aiohttp", fb_url, got))
    /\ fb_pc' = IF got THEN "bytes" ELSE "fallback"
    /\ UNCHANGED <<site, fb_url, fb_viewer, fb_targets, fb_result>>

\* lines 306-321: the bytes request; a failure of the first referer leaves the
\* loop
ImageFetchBytes(got) ==
    /\ site = "image"
    /\ fb_pc = "bytes"
    /\ calls' = Append(calls, Call("aiohttp", fb_url, got))
    /\ IF got THEN FallbackDone("payload")
       ELSE fb_pc' = "fallback" /\ UNCHANGED fb_result
    /\ UNCHANGED <<site, fb_url, fb_viewer, fb_targets>>

\* lines 341-345: _requests_fetch, then the return
ImageRequestsFetch(got) ==
    /\ site = "image"
    /\ fb_pc = "fallback"
    /\ calls' = Append(calls, Call("requests", fb_url, got))
    /\ FallbackDone(IF got THEN "payload" ELSE "none")
    /\ UNCHANGED <<site, fb_url, fb_viewer, fb_targets>>

\* ArticleExtractor.get_article_content, line 183
ArticleFetch(got) ==
    /\ site = "article"
    /\ fb_pc = "start"
    /\ calls' = Append(calls, Call("aiohttp", fb_url, got))
    /\ fb_pc' = IF got THEN "extract" ELSE "fallback"
    /\ UNCHANGED <<site, fb_url, fb_viewer, fb_targets, fb_result>>

\* lines 185-190
ArticleRequestsFetch(got) ==
    /\ site = "article"
    /\ fb_pc = "fallback"
    /\ calls' = Append(calls, Call("requests", fb_url, got))
    /\ fb_pc' = IF got THEN "extract" ELSE "archive"
    /\ UNCHANGED <<site, fb_url, fb_viewer, fb_targets, fb_result>>

\* lines 192-197: extract_from_html on the fetched page
ArticleExtract(success) ==
    /\ site = "article"
    /\ fb_pc = "extract"
    /\ IF success THEN FallbackDone("payload")
       ELSE fb_pc' = "archive" /\ UNCHANGED fb_result
    /\ UNCHANGED <<site, fb_url, fb_viewer, fb_targets, calls>>

\* lines 199-200 and 171-172: the archive attempt asks the Wayback API
ArticleWayback(found) ==
    /\ site = "article"
    /\ fb_pc = "archive"
    /\ calls' = Append(calls, Call("aiohttp", ArchiveApiUrl, found))
    /\ IF found THEN fb_pc' = "snapshot" /\ UNCHANGED fb_result
       ELSE FallbackDone("none")
    /\ UNCHANGED <<site, fb_url, fb_viewer, fb_targets>>

\* lines 173-181: the snapshot is fetched and returned
ArticleSnapshotFetch(got) ==
    /\ site = "article"
    /\ fb_pc = "snapshot"
    /\ calls' = Append(calls, Call("aiohttp", SnapshotUrl, got))
    /\ FallbackDone(IF got THEN "payload" ELSE "none")
    /\ UNCHANGED <<site, fb_url, fb_viewer, fb_targets>>

\* ForumImageProcessor.fetch_image_data, lines 861-868: every target is asked
\* for through requests first; html says the answer is a text/html page
ForumRequestsFirst(got, html) ==
    /\ site = "forum"
    /\ fb_pc \in {"start", "target"}
    /\ LET targets == IF fb_pc = "start" THEN ForumTargets(fb_url, fb_viewer)
                      ELSE fb_targets
       IN  /\ fb_targets' = targets
           /\ calls' = Append(calls, Call("requests", Head(targets), got))
    /\ IF got /\ ~html THEN FallbackDone("payload")
       ELSE IF got THEN fb_pc' = "viewer_page" /\ UNCHANGED fb_result
       ELSE fb_pc' = "after_first" /\ UNCHANGED fb_result
    /\ UNCHANGED <<site, fb_url, fb_viewer>>

\* lines 869-873: the image a viewer page names, through requests again
ForumViewerImage(found, got) ==
    /\ site = "forum"
    /\ fb_pc = "viewer_page"
    /\ calls' = IF found THEN Append(calls, Call("requests", ViewerImageUrl, got))
                ELSE calls
    /\ IF found /\ got THEN FallbackDone("payload")
       ELSE fb_pc' = "after_first" /\ UNCHANGED fb_result
    /\ UNCHANGED <<site, fb_url, fb_viewer, fb_targets>>

\* The for loop goes on to the next target, or ends (line 892).
ForumNextTarget ==
    /\ fb_targets' = Tail(fb_targets)
    /\ IF Tail(fb_targets) = <<>> THEN FallbackDone("none")
       ELSE fb_pc' = "target" /\ UNCHANGED fb_result

\* lines 875-885: fetch_with_retry for a target that is no attachment.  Its
\* answer (bytes, final_url) is bound to (headers, resp); headers.get on bytes
\* raises AttributeError, which line 893 turns into an error return.
ForumAiohttpFetch(got) ==
    /\ site = "forum"
    /\ fb_pc = "after_first"
    /\ ~IsAttachmentTarget(Head(fb_targets))
    /\ calls' = Append(calls, Call("aiohttp", Head(fb_targets), got))
    /\ IF got THEN FallbackDone("none") /\ UNCHANGED fb_targets
       ELSE ForumNextTarget
    /\ UNCHANGED <<site, fb_url, fb_viewer>>

\* lines 887-890: an attachment target is asked for through requests once more
ForumRequestsAgain(got) ==
    /\ site = "forum"
    /\ fb_pc = "after_first"
    /\ IsAttachmentTarget(Head(fb_targets))
    /\ calls' = Append(calls, Call("requests", Head(fb_targets), got))
    /\ IF got THEN FallbackDone("payload") /\ UNCHANGED fb_targets
       ELSE ForumNextTarget
    /\ UNCHANGED <<site, fb_url, fb_viewer>>

InitFallback ==
    /\ site \in {"image", "forum", "article"}
    /\ \E a \in (CASE site = "image" ->
                        {[url |-> UrlA, viewer_url |-> NoUrl],
                         [url |-> UrlWikimedia, viewer_url |-> NoUrl]}
                   [] site = "forum" -> ForumFetchArguments
                   [] site = "article" -> {[url |-> PageUrl, viewer_url |-> NoUrl]}) :
           /\ fb_url = a.url
           /\ fb_viewer = a.viewer_url
    /\ fb_pc = "start"
    /\ fb_targets = <<>>
    /\ calls = <<>>
    /\ fb_result = "pending"
    /\ OthersUnused("fallback")

NextFallback ==
    /\ \/ \E got \in BOOLEAN : ImageWikimediaGet(got)
       \/ \E got \in BOOLEAN : ImageFetchHeaders(got)
       \/ \E got \in BOOLEAN : ImageFetchBytes(got)
       \/ \E got \in BOOLEAN : ImageRequestsFetch(got)
       \/ \E got \in BOOLEAN : ArticleFetch(got)
       \/ \E got \in BOOLEAN : ArticleRequestsFetch(got)
       \/ \E success \in BOOLEAN : ArticleExtract(success)
       \/ \E found \in BOOLEAN : ArticleWayback(found)
       \/ \E got \in BOOLEAN : ArticleSnapshotFetch(got)
       \/ \E got \in BOOLEAN, html \in BOOLEAN : ForumRequestsFirst(got, html)
       \/ \E found \in BOOLEAN, got \in BOOLEAN : ForumViewerImage(found, got)
       \/ \E got \in BOOLEAN : ForumAiohttpFetch(got)
       \/ \E got \in BOOLEAN : ForumRequestsAgain(got)
    /\ OthersUnchanged("fallback")

SpecFallback == InitFallback /\ [][NextFallback]_vars

(***************************************************************************)
(* create_bundle (main.py): the books of one run merged into one BookData. *)
(***************************************************************************)
MaxBooks == 2
MaxBookImages == 2

\* Chapter (filename as text pieces; title, content_html and uid are carried
\* along unchanged and left out)
Chapter(filename, is_article, is_comments) ==
    [filename |-> filename, is_article |-> is_article, is_comments |-> is_comments]

\* The chapter lists the drivers produce.
ChapterLists ==
    { <<Chapter(<<"article.xhtml">>, TRUE, FALSE)>>,
      <<Chapter(<<"article.xhtml">>, TRUE, FALSE),
        Chapter(<<"comments.xhtml">>, FALSE, TRUE)>> }

\* Assets as the processors leave them in a book's list: the first picture of
\* a book is images/photo.jpg whatever it shows.
BookAssetPool ==
    { Asset(FileName(<<"photo">>, 0, ".jpg"), Picture("B1", TRUE, FALSE, "jpeg"),
            UrlA, <<UrlA>>),
      Asset(FileName(<<"photo">>, 0, ".jpg"), Picture("B2", TRUE, FALSE, "jpeg"),
            UrlB, <<UrlB>>),
      Asset(FileName(<<"photo">>, 1, ".jpg"), Picture("B2", TRUE, FALSE, "jpeg"),
            UrlB, <<UrlB>>),
      Asset(FileName(<<"copy">>, 0, ".jpg"), Picture("B1", TRUE, FALSE, "jpeg"),
            UrlCopy, <<UrlCopy>>) }

\* The sequences of at most n elements of S.
SeqsUpTo(S, n) == UNION {[1..k -> S] : k \in 0..n}

NamesDistinct(images) ==
    \A i \in 1..Len(images), j \in 1..Len(images) :
        i # j => images[i].filename # images[j].filename

\* book.images: within one book the processors keep the file names distinct.
BookImageLists == {l \in SeqsUpTo(BookAssetPool, MaxBookImages) : NamesDistinct(l)}

\* BookData as far as create_bundle reads it
Book(source_url, images, chapters) ==
    [source_url |-> source_url, images |-> images, chapters |-> chapters]

BookSet ==
    { Book(u, i, c) : u \in {"https://a.example/1", "https://b.example/2"},
                      i \in BookImageLists, c \in ChapterLists }

\* if img not in master_images: master_images.append(img), for every image of
\* the book; "in" compares every field of the ImageAsset dataclass
RECURSIVE MergeImages(_, _)
MergeImages(master_images, images) ==
    IF images = <<>> THEN master_images
    ELSE MergeImages(IF Contains(master_images, Head(images)) THEN master_images
                     ELSE Append(master_images, Head(images)),
                     Tail(images))

\* chap.filename = f"doc_{abs(hash(book.source_url))}_{chap.filename}"
BundleChapters(book) ==
    [i \in 1..Len(book.chapters) |->
        [book.chapters[i] EXCEPT
            !.filename = <<"doc_", book.source_url, "_">> \o book.chapters[i].filename]]

\* lines 62-75: the table-of-contents entry of a book: its article chapter and,
\* below it, its comments chapter (the last of each kind)
RECURSIVE LastChapter(_, _, _)
LastChapter(chapters, kind, found) ==
    IF chapters = <<>> THEN found
    ELSE LastChapter(Tail(chapters), kind,
                     IF kind = "article" /\ Head(chapters).is_article
                        THEN <<Head(chapters).filename>>
                     ELSE IF kind = "comments" /\ ~Head(chapters).is_article
                                               /\ Head(chapters).is_comments
                        THEN <<Head(chapters).filename>>
                     ELSE found)

BundleToc(book) ==
    LET article == LastChapter(BundleChapters(book), "article", <<>>)
        comments == LastChapter(BundleChapters(book), "comments", <<>>)
    IN  IF article = <<>> THEN <<>>
        ELSE <<[link |-> article[1], below |-> comments]>>

\* master_images, master_chapters, master_toc before the loop
NoBundle == [returned |-> FALSE, images |-> <<>>, chapters |-> <<>>,
             toc_structure |-> <<>>]

\* create_bundle(books, title, author): the loop over the books, then the
\* return
RECURSIVE create_bundle(_, _)
create_bundle(bs, master) ==
    IF bs = <<>> THEN [master EXCEPT !.returned = TRUE]
    ELSE create_bundle(Tail(bs),
             [returned |-> FALSE,
              images |-> MergeImages(master.images, Head(bs).images),
              chapters |-> master.chapters \o BundleChapters(Head(bs)),
              toc_structure |-> master.toc_structure \o BundleToc(Head(bs))])

InitBundle ==
    /\ books \in SeqsUpTo(BookSet, MaxBooks)
    /\ bundle = NoBundle
    /\ OthersUnused("bundle")

\* The call and its return.
CreateBundle ==
    /\ ~bundle.returned
    /\ bundle' = create_bundle(books, NoBundle)
    /\ UNCHANGED books

NextBundle ==
    /\ CreateBundle
    /\ OthersUnchanged("bundle")

SpecBundle == InitBundle /\ [][NextBundle]_vars

(***************************************************************************)
(* _enrich_comment_tree (utils/formatting.py).  The nodes of a forest are  *)
(* numbered in document order, parent[x] = 0 for a root; the children of a *)
(* node and the roots are listed in that order.  A derived field of a node *)
(* is Unset while its dict has no such key.                                *)
(***************************************************************************)
MaxNodes == 4
MaxPasses == 2

IdTexts == <<"c1", "c2", "c3", "c4", "c5", "c6">>

Unset == "<unset>"

\* dict.get(key): None for a missing key
Get(v) == IF v = Unset THEN None ELSE v

\* str(node.get('id')): every normalizer stores the id as a str
\* (formatting.py:47, reddit.py:183, wordpress.py:99, substack.py:228,
\* youtube.py:257), and str of a str is that str.
Str(id) == id

\* The nodes of the list whose parent is x (x = 0: the roots), in order.
RECURSIVE ChildrenFrom(_, _, _)
ChildrenFrom(F, x, k) ==
    IF k > F.n THEN <<>>
    ELSE (IF F.parent[k] = x THEN <<k>> ELSE <<>>) \o ChildrenFrom(F, x, k + 1)

\* node['children_data'], and roots for x = 0
ChildrenData(F, x) == ChildrenFrom(F, x, 1)

\* line 14 / line 21: str(nodes[i+1].get('id'))
NextRootIdOfSelf(F, roots, i) == Str(F.id[roots[i]])
NextRootIdOf(F, roots, i) == Str(F.id[roots[i + 1]])
NextSiblingIdOfSelf(F, nodes, i) == Str(F.id[nodes[i]])
NextSiblingIdOf(F, nodes, i) == Str(F.id[nodes[i + 1]])

\* lines 13-14: every root but the last is linked to the root after it
LinkRoots(F, f) ==
    LET roots == ChildrenData(F, 0)
    IN  [f EXCEPT !.next_root_id =
            [x \in 1..F.n |->
                IF \E i \in 1..(Len(roots) - 1) : roots[i] = x
                THEN NextRootIdOf(F, roots, CHOOSE i \in 1..(Len(roots) - 1) : roots[i] = x)
                ELSE f.next_root_id[x]]]

\* line 23: root_id or str(node.get('id'))
ChildRootIdOwn(root_id, own) == own
ChildRootId(root_id, own) == IF root_id # "" THEN root_id ELSE own

\* lines 15-23: recurse(nodes, parent_id, root_id, next_root_id), from the
\* i-th node of the list on
RECURSIVE Recurse(_, _, _, _, _, _, _)
Recurse(F, nodes, i, parent_id, root_id, next_root_id, f) ==
    IF i > Len(nodes) THEN f
    ELSE LET node == nodes[i]
             f1 == [f EXCEPT !.parent_id[node] = parent_id,
                             !.root_id[node] = root_id,
                             !.next_root_id[node] = next_root_id]
             f2 == IF i < Len(nodes)
                   THEN [f1 EXCEPT !.next_sibling_id[node] = NextSiblingIdOf(F, nodes, i)]
                   ELSE f1
             f3 == IF ChildrenData(F, node) # <<>>
                   THEN Recurse(F, ChildrenData(F, node), 1, Str(F.id[node]),
                                ChildRootId(root_id, Str(F.id[node])), next_root_id, f2)
                   ELSE f2
         IN  Recurse(F, nodes, i + 1, parent_id, root_id, next_root_id, f3)

\* line 25: next_r = root.get('next_root_id'), read after the roots were linked
RootNextRootIdGiven(given, linked, root) == Get(given.next_root_id[root])
RootNextRootId(given, linked, root) == Get(linked.next_root_id[root])

\* lines 24-27: for root in roots, from the i-th root on
RECURSIVE EnrichRoots(_, _, _, _, _)
EnrichRoots(F, roots, i, given, f) ==
    IF i > Len(roots) THEN f
    ELSE EnrichRoots(F, roots, i + 1, given,
             IF ChildrenData(F, roots[i]) # <<>>
             THEN Recurse(F, ChildrenData(F, roots[i]), 1, Str(F.id[roots[i]]),
                          Str(F.id[roots[i]]),
                          RootNextRootId(given, LinkRoots(F, given), roots[i]), f)
             ELSE f)

\* _enrich_comment_tree(roots): the derived fields it leaves in the dicts
_enrich_comment_tree(F, f) ==
    IF ChildrenData(F, 0) = <<>> THEN f
    ELSE EnrichRoots(F, ChildrenData(F, 0), 1, f, LinkRoots(F, f))

\* The forests of at most MaxNodes nodes with distinct ids.
Forests ==
    UNION { { [n |-> k, parent |-> par, id |-> ids] :
                par \in {q \in [1..k -> 0..(k - 1)] : \A x \in 1..k : q[x] < x},
                ids \in {q \in [1..k -> {IdTexts[j] : j \in 1..MaxNodes}] :
                            \A x \in 1..k, y \in 1..k : x # y => q[x] # q[y]} } :
            k \in 0..MaxNodes }

\* No derived field is set.
FreshFields(F) ==
    [parent_id |-> [x \in 1..F.n |-> Unset], root_id |-> [x \in 1..F.n |-> Unset],
     next_sibling_id |-> [x \in 1..F.n |-> Unset],
     next_root_id |-> [x \in 1..F.n |-> Unset]]

\* youtube.py:254-260: the YouTube normalizer writes parent_id itself, None
\* for a root
YouTubeFields(F) ==
    [FreshFields(F) EXCEPT !.parent_id =
        [x \in 1..F.n |-> IF F.parent[x] = 0 THEN None ELSE F.id[F.parent[x]]]]

(***************************************************************************)
(* format_comment_html (formatting.py 58-98): the document is the list of  *)
(* the comments' <div> elements in the order they are written; of a        *)
(* comment the id attribute and the four navigation buttons are kept.      *)
(***************************************************************************)
\* make_btn(target_id, symbol, title): an anchor for a target that is true,
\* a span for None and ""
MakeBtnAnchor(target_id) == [tag |-> "a", href |-> "#c_" \o target_id]
MakeBtn(target_id) ==
    IF target_id \notin {None, ""} THEN [tag |-> "a", href |-> "#c_" \o target_id]
    ELSE [tag |-> "span", href |-> ""]

\* line 71: btns
Buttons(f, x, depth) ==
    <<MakeBtn(Get(f.parent_id[x])), MakeBtn(Get(f.next_sibling_id[x])),
      MakeBtn(IF depth > 1 THEN Get(f.root_id[x]) ELSE None),
      MakeBtn(Get(f.next_root_id[x]))>>

\* format_comment_html(comment_data, formatter, depth) for the nodes of a list
\* from the i-th on: <div id="c_{cid}"> with the header, then the children
\* one level deeper (lines 93-97)
RECURSIVE FormatComments(_, _, _, _, _)
FormatComments(F, f, nodes, i, depth) ==
    IF i > Len(nodes) THEN <<>>
    ELSE <<[node |-> nodes[i], id |-> "c_" \o F.id[nodes[i]], depth |-> depth,
            btns |-> Buttons(f, nodes[i], depth)]>>
            \o FormatComments(F, f, ChildrenData(F, nodes[i]), 1, depth + 1)
            \o FormatComments(F, f, nodes, i + 1, depth)

\* The chunks of all roots joined
Document(F, f) == FormatComments(F, f, ChildrenData(F, 0), 1, 0)

NotRendered == [rendered |-> FALSE]

InitEnrich ==
    /\ forest \in Forests
    /\ fields \in {FreshFields(forest), YouTubeFields(forest)}
    /\ passes = 0
    /\ once = fields
    /\ comments_html = NotRendered
    /\ OthersUnused("enrich")

\* One call of _enrich_comment_tree on the forest.
Enrich ==
    /\ passes < MaxPasses
    /\ ~comments_html.rendered
    /\ fields' = _enrich_comment_tree(forest, fields)
    /\ passes' = passes + 1
    /\ once' = IF passes = 0 THEN fields' ELSE once
    /\ UNCHANGED <<forest, comments_html>>

\* The driver renders every thread of the enriched forest into one document
\* (hn.py 131-137, youtube.py 281-287): format_comment_html(comment, fmt) for
\* each root.
RenderComments ==
    /\ passes >= 1
    /\ ~comments_html.rendered
    /\ comments_html' = [rendered |-> TRUE, doc |-> Document(forest, fields)]
    /\ UNCHANGED <<forest, fields, passes, once>>

NextEnrich ==
    /\ \/ Enrich
       \/ RenderComments
    /\ OthersUnchanged("enrich")

SpecEnrich == InitEnrich /\ [][NextEnrich]_vars

\* The dicts of a forest are the items the comment API answered
\* (formatting.py 41-48 keep the JSON object and add children_data and id):
\* a key of a derived field may be in one of them already, with the id of a
\* comment that is not in the forest.
StaleId == "c0"
DerivedFields == {"parent_id", "root_id", "next_sibling_id", "next_root_id"}

StaleFields(F) ==
    { [FreshFields(F) EXCEPT ![k][x] = StaleId] : k \in DerivedFields, x \in 1..F.n }

InitEnrichStale ==
    /\ forest \in Forests
    /\ fields \in {FreshFields(forest), YouTubeFields(forest)} \cup StaleFields(forest)
    /\ passes = 0
    /\ once = fields
    /\ comments_html = NotRendered
    /\ OthersUnused("enrich")

SpecEnrichStale == InitEnrichStale /\ [][NextEnrich]_vars

(***************************************************************************)
(* process_urls (main.py): one safe_process task per source, all started   *)
(* by gather, each inside "async with GLOBAL_SEMAPHORE".  A source is      *)
(* described by what happens to it: urlparse rejects its URL in get_driver *)
(* ("malformed"), or its driver returns a book, returns None or raises;    *)
(* cookies says whether it carries cookies and gets a session of its own.  *)
(***************************************************************************)
MaxSources == 3

\* GLOBAL_SEMAPHORE = asyncio.Semaphore(2)
GLOBAL_SEMAPHORE == 2

SourceSet == [kind : {"book", "none", "raises", "malformed"}, cookies : BOOLEAN]

\* Semaphore.acquire goes through while the value is positive.
AlwaysFree(value) == TRUE
SlotFree(value) == value > 0

\* lines 39-44: what safe_process returns for the driver's outcome; an
\* exception of the driver is logged and None returned.
SafeResultNoExcept(kind) == IF kind = "raises" THEN "raised" ELSE kind
SafeResult(kind) == IF kind = "raises" THEN "none" ELSE kind

\* line 50: [b for b in results if b], as the positions of the sources
RECURSIVE BooksOf(_, _)
BooksOf(res, i) ==
    IF i > Len(res) THEN <<>>
    ELSE (IF res[i] = "book" THEN <<i>> ELSE <<>>) \o BooksOf(res, i + 1)

InitProcess ==
    /\ sources \in SeqsUpTo(SourceSet, MaxSources)
    /\ sp_pc = [i \in 1..Len(sources) |-> "waiting"]
    /\ permits = GLOBAL_SEMAPHORE
    /\ sp_result = [i \in 1..Len(sources) |-> "pending"]
    /\ returned = [state |-> "pending", books |-> <<>>]
    /\ OthersUnused("process")

\* safe_process takes a slot and runs up to its first await (lines 25-41):
\* profile lookup, get_driver, the session of its own, the driver call.  An
\* exception of get_driver leaves the async with block, which gives the slot
\* back, and ends the task.
EnterSemaphore(i) ==
    /\ sp_pc[i] = "waiting"
    /\ SlotFree(permits)
    /\ IF sources[i].kind = "malformed"
       THEN /\ sp_pc' = [sp_pc EXCEPT ![i] = "done"]
            /\ sp_result' = [sp_result EXCEPT ![i] = "raised"]
            /\ UNCHANGED permits
       ELSE /\ sp_pc' = [sp_pc EXCEPT ![i] = "driver"]
            /\ permits' = permits - 1
            /\ UNCHANGED sp_result
    /\ UNCHANGED <<sources, returned>>

\* driver.prepare_book_data ends (lines 41-47): the result is settled; a
\* session of its own is closed before the slot is given back.
DriverEnds(i) ==
    /\ sp_pc[i] = "driver"
    /\ sp_result' = [sp_result EXCEPT ![i] = SafeResult(sources[i].kind)]
    /\ IF sources[i].cookies
       THEN /\ sp_pc' = [sp_pc EXCEPT ![i] = "closing"]
            /\ UNCHANGED permits
       ELSE /\ sp_pc' = [sp_pc EXCEPT ![i] = "done"]
            /\ permits' = permits + 1
    /\ UNCHANGED <<sources, returned>>

\* await local_session.close() returns (line 47) and the async with block ends.
CloseLocalSession(i) ==
    /\ sp_pc[i] = "closing"
    /\ sp_pc' = [sp_pc EXCEPT ![i] = "done"]
    /\ permits' = permits + 1
    /\ UNCHANGED <<sources, sp_result, returned>>

\* gather returns the results in the order of the sources (lines 49-50).
GatherReturns ==
    /\ returned.state = "pending"
    /\ \A i \in 1..Len(sources) : sp_pc[i] = "done" /\ sp_result[i] # "raised"
    /\ returned' = [state |-> "returned", books |-> BooksOf(sp_result, 1)]
    /\ UNCHANGED <<sources, sp_pc, permits, sp_result>>

\* gather hands the first exception of a task on at once (no
\* return_exceptions); the other tasks keep running.
GatherRaises ==
    /\ returned.state = "pending"
    /\ \E i \in 1..Len(sources) : sp_result[i] = "raised"
    /\ returned' = [state |-> "raised", books |-> <<>>]
    /\ UNCHANGED <<sources, sp_pc, permits, sp_result>>

NextProcess ==
    /\ \/ \E i \in 1..Len(sources) : EnterSemaphore(i)
       \/ \E i \in 1..Len(sources) : DriverEnds(i)
       \/ \E i \in 1..Len(sources) : CloseLocalSession(i)
       \/ GatherReturns
       \/ GatherRaises
    /\ OthersUnchanged("process")

SpecProcess == InitProcess /\ [][NextProcess]_vars

(***************************************************************************)
(* ArticleExtractor.get_article_content (extractor.py 157-200) with the    *)
(* call it makes to itself, and the first lines of                         *)
(* GenericDriver.prepare_book_data.  art_tried lists the attempts: the     *)
(* fetches "live", "requests", "wayback", "snapshot" and the runs of       *)
(* extract_from_html ("extract"), each with whether it yielded something.  *)
(***************************************************************************)
\* Cap on the nested calls the model follows.
MaxArchiveDepth == 3

Attempt(step, ok) == [step |-> step, ok |-> ok]

\* lines 161-182: where a call with these arguments begins
EntryPc(raw_html, force_archive) ==
    IF raw_html THEN "prefetched"
    ELSE IF force_archive THEN "wayback"
    ELSE "live"

\* result as line 158 builds it, with the keys the callers read
ArticleResult(success, html, was_archived) ==
    [success |-> success, html |-> html, was_archived |-> was_archived]

NoArticleResult == [success |-> FALSE, html |-> FALSE, was_archived |-> FALSE,
                    pending |-> TRUE]

\* line 200: the arguments of the call to itself: raw_html is not handed on
RecursiveCallLive == [raw_html |-> FALSE, force_archive |-> FALSE]
RecursiveCall == [raw_html |-> FALSE, force_archive |-> TRUE]

ArticleReturn(res) ==
    /\ art_pc' = "returned"
    /\ art_result' = res
    /\ UNCHANGED art_depth

\* lines 199-200: return await get_article_content(..., force_archive=True)
ArticleRecurse ==
    /\ art_depth < MaxArchiveDepth
    /\ art_depth' = art_depth + 1
    /\ art_pc' = EntryPc(RecursiveCall.raw_html, RecursiveCall.force_archive)
    /\ UNCHANGED art_result

InitArticle ==
    /\ art_args \in [raw_html : BOOLEAN, force_archive : BOOLEAN]
    /\ art_pc = EntryPc(art_args.raw_html, art_args.force_archive)
    /\ art_depth = 0
    /\ art_tried = <<>>
    /\ art_result = NoArticleResult
    /\ art_book = "pending"
    /\ OthersUnused("article")

\* lines 161-168: extract_from_html on the page the source came with
ArticlePrefetched(success) ==
    /\ art_pc = "prefetched"
    /\ art_tried' = Append(art_tried, Attempt("extract", success))
    /\ IF success THEN ArticleReturn(ArticleResult(TRUE, TRUE, FALSE))
       ELSE /\ art_pc' = EntryPc(FALSE, art_args.force_archive)
            /\ UNCHANGED <<art_depth, art_result>>
    /\ UNCHANGED <<art_args, art_book>>

\* line 183: fetch_with_retry(session, url, 'text', {403}, max_retries=1)
ArticleLiveFetch(got) ==
    /\ art_pc = "live"
    /\ art_tried' = Append(art_tried, Attempt("live", got))
    /\ art_pc' = IF got THEN "extract" ELSE "requests"
    /\ UNCHANGED <<art_args, art_depth, art_result, art_book>>

\* lines 185-190: _requests_fetch after the aiohttp path yielded nothing
ArticleSecondaryFetch(got) ==
    /\ art_pc = "requests"
    /\ art_tried' = Append(art_tried, Attempt("requests", got))
    /\ IF got THEN art_pc' = "extract" /\ UNCHANGED <<art_depth, art_result>>
       ELSE ArticleRecurse
    /\ UNCHANGED <<art_args, art_book>>

\* lines 192-200: extract_from_html on the fetched page
ArticleLiveExtract(success) ==
    /\ art_pc = "extract"
    /\ art_tried' = Append(art_tried, Attempt("extract", success))
    /\ IF success THEN ArticleReturn(ArticleResult(TRUE, TRUE, FALSE))
       ELSE ArticleRecurse
    /\ UNCHANGED <<art_args, art_book>>

\* lines 170-172, 181: get_wayback_url
ArticleWaybackLookup(found) ==
    /\ art_pc = "wayback"
    /\ art_tried' = Append(art_tried, Attempt("wayback", found))
    /\ IF found THEN art_pc' = "snapshot" /\ UNCHANGED <<art_depth, art_result>>
       ELSE ArticleReturn(ArticleResult(FALSE, FALSE, FALSE))
    /\ UNCHANGED <<art_args, art_book>>

\* lines 173-181: the snapshot is fetched and extracted, and the call returns
\* whatever came of it
ArticleSnapshot(got, success) ==
    /\ art_pc = "snapshot"
    /\ art_tried' = Append(art_tried, Attempt("snapshot", got))
                        \o (IF got THEN <<Attempt("extract", success)>> ELSE <<>>)
    /\ ArticleReturn(IF got THEN ArticleResult(success, TRUE, TRUE)
                     ELSE ArticleResult(FALSE, FALSE, FALSE))
    /\ UNCHANGED <<art_args, art_book>>

\* GenericDriver.prepare_book_data, lines 19-22
GenericPrepareBookData ==
    /\ art_pc = "returned"
    /\ art_book = "pending"
    /\ art_book' = IF ~art_result.success THEN "none" ELSE "book"
    /\ UNCHANGED <<art_args, art_pc, art_depth, art_tried, art_result>>

NextArticle ==
    /\ \/ \E success \in BOOLEAN : ArticlePrefetched(success)
       \/ \E got \in BOOLEAN : ArticleLiveFetch(got)
       \/ \E got \in BOOLEAN : ArticleSecondaryFetch(got)
       \/ \E success \in BOOLEAN : ArticleLiveExtract(success)
       \/ \E found \in BOOLEAN : ArticleWaybackLookup(found)
       \/ \E got \in BOOLEAN, success \in BOOLEAN : ArticleSnapshot(got, success)
       \/ GenericPrepareBookData
    /\ OthersUnchanged("article")

SpecArticle == InitArticle /\ [][NextArticle]_vars

(***************************************************************************)
(* DriverDispatcher.get_driver (core/dispatcher.py).  A source URL is its  *)
(* network location, path and query; source.html is the set of markers the *)
(* page holds (page = FALSE: None or the empty string).                    *)
(***************************************************************************)
Netlocs == {"example.com", "news.ycombinator.com", "www.reddit.com", "redd.it",
            "test.substack.com", "blog.wordpress.com", "www.youtube.com", "youtu.be",
            "[site.example"}

SourceUrls == [netloc : Netlocs, path : {"/", "/p/123"},
               query : {"", "ref=substack.com", "u=news.ycombinator.com/item"}]

Markers == {"substack:post_id", "data-template=\"thread_view\"", "XenForo",
            "name=\"generator\" content=\"WordPress\"", "class=\"comment-list\""}

HtmlSet == {[page |-> FALSE, markers |-> {}]}
               \cup {[page |-> TRUE, markers |-> m] :
                        m \in {x \in SUBSET Markers : Cardinality(x) <= 2}}

Aliases == {"", "forum", "XenForo", "wordpress", "substack", "hn", "hackernews",
            "reddit", "youtube", "generic", "custom"}

NoProfile == [found |-> FALSE, driver_alias |-> ""]

ProfileSet == {NoProfile} \cup {[found |-> TRUE, driver_alias |-> a] : a \in Aliases}

\* str.lower()
Lower(text) == IF text = "XenForo" THEN "xenforo" ELSE text

\* lines 17-25: the driver a recognised alias names ("": none)
AliasDriver(p) ==
    IF ~p.found \/ p.driver_alias = "" THEN ""
    ELSE LET alias == Lower(p.driver_alias)
         IN  CASE alias \in {"forum", "xenforo"} -> "ForumDriver"
               [] alias = "wordpress" -> "WordPressDriver"
               [] alias = "substack" -> "SubstackDriver"
               [] alias \in {"hn", "hackernews"} -> "HackerNewsDriver"
               [] alias = "reddit" -> "RedditDriver"
               [] alias = "youtube" -> "YouTubeDriver"
               [] alias = "generic" -> "GenericDriver"
               [] OTHER -> ""

\* line 29: urlparse(url) raises ValueError for a network location with an
\* unmatched bracket
UrlParseRaises(u) == u.netloc = "[site.example"

\* text in url, for the texts lines 35-42 look for
UrlContains(u, text) ==
    CASE text = "news.ycombinator.com" ->
             u.netloc = "news.ycombinator.com" \/ u.query = "u=news.ycombinator.com/item"
      [] text = "substack.com" ->
             u.netloc = "test.substack.com" \/ u.query = "ref=substack.com"
      [] text = "wordpress.com" -> u.netloc = "blog.wordpress.com"
      [] OTHER -> FALSE

\* lines 35-44: the driver the URL selects ("": none)
UrlDriver(u) ==
    IF UrlContains(u, "news.ycombinator.com") THEN "HackerNewsDriver"
    ELSE IF u.netloc = "www.reddit.com" \/ u.netloc = "redd.it" THEN "RedditDriver"
    ELSE IF UrlContains(u, "substack.com") \/ u.path = "/p/123" THEN "SubstackDriver"
    ELSE IF UrlContains(u, "wordpress.com") THEN "WordPressDriver"
    ELSE IF u.netloc \in {"www.youtube.com", "youtube.com", "youtu.be"}
    THEN "YouTubeDriver"
    ELSE ""

\* lines 47-53: the driver the markers in source.html select ("": none)
HtmlDriver(html) ==
    IF ~html.page THEN ""
    ELSE IF "substack:post_id" \in html.markers THEN "SubstackDriver"
    ELSE IF "data-template=\"thread_view\"" \in html.markers
             \/ \E m \in html.markers : Lower(m) = "xenforo"
    THEN "ForumDriver"
    ELSE IF "name=\"generator\" content=\"WordPress\"" \in html.markers
             \/ "class=\"comment-list\"" \in html.markers
    THEN "WordPressDriver"
    ELSE ""

get_driver_url_first(src, p) ==
    IF AliasDriver(p) # "" THEN AliasDriver(p)
    ELSE IF UrlParseRaises(src.url) THEN "ValueError"
    ELSE IF UrlDriver(src.url) # "" THEN UrlDriver(src.url)
    ELSE IF src.is_forum THEN "ForumDriver"
    ELSE IF HtmlDriver(src.html) # "" THEN HtmlDriver(src.html)
    ELSE "GenericDriver"

\* DriverDispatcher.get_driver(source, profile): the class of the driver it
\* returns, or the exception it raises
get_driver(src, p) ==
    IF AliasDriver(p) # "" THEN AliasDriver(p)
    ELSE IF UrlParseRaises(src.url) THEN "ValueError"
    ELSE IF src.is_forum THEN "ForumDriver"
    ELSE IF UrlDriver(src.url) # "" THEN UrlDriver(src.url)
    ELSE IF HtmlDriver(src.html) # "" THEN HtmlDriver(src.html)
    ELSE "GenericDriver"

InitDispatch ==
    /\ source \in [url : SourceUrls, html : HtmlSet, is_forum : BOOLEAN]
    /\ profile \in ProfileSet
    /\ driver = "pending"
    /\ OthersUnused("dispatch")

GetDriver ==
    /\ driver = "pending"
    /\ driver' = get_driver(source, profile)
    /\ UNCHANGED <<source, profile>>

NextDispatch ==
    /\ GetDriver
    /\ OthersUnchanged("dispatch")

SpecDispatch == InitDispatch /\ [][NextDispatch]_vars

(***************************************************************************)
(* HackerNewsDriver.prepare_book_data (drivers/hn.py 20-167).  uid and     *)
(* filename are lists of text pieces; content_html and the images are      *)
(* carried along unchanged and left out.                                   *)
(***************************************************************************)
HnChapter(title, uid, filename, is_article, is_comments) ==
    [title |-> title, uid |-> uid, filename |-> filename,
     is_article |-> is_article, is_comments |-> is_comments]

SubArticle == HnChapter("Sub Title", <<"sub_art">>, <<"sub_art", ".xhtml">>, TRUE, FALSE)
SubComments == HnChapter("Comments", <<"sub_com">>, <<"sub_com", ".xhtml">>, FALSE, TRUE)
SubPage == HnChapter("Page 2", <<"page_2">>, <<"page_2", ".xhtml">>, FALSE, FALSE)

\* What temp_driver.prepare_book_data does: it raises, returns None, or
\* returns a book with these chapters.
SubBookSet ==
    {[outcome |-> "raises", chapters |-> <<>>], [outcome |-> "none", chapters |-> <<>>]}
        \cup {[outcome |-> "book", chapters |-> c] :
                 c \in {<<SubArticle, SubComments>>, <<SubArticle>>, <<SubComments>>,
                        <<SubArticle, SubPage, SubComments>>, <<>>}}

\* The URLs and profiles of the linked article.
LinkedUrls ==
    {[netloc |-> n, path |-> "/", query |-> ""] :
        n \in {"example.com", "news.ycombinator.com", "test.substack.com",
               "blog.wordpress.com", "[site.example"}}

LinkedProfiles == {NoProfile, [found |-> TRUE, driver_alias |-> "forum"],
                   [found |-> TRUE, driver_alias |-> "generic"]}

\* fetched: the item id was read from the URL and the API returned the item
\* (lines 24-33); has_comments: the item has kids, comments are wanted and
\* their HTML is not empty.
HnItems ==
    [fetched : BOOLEAN, has_url : BOOLEAN, url : LinkedUrls, profile : LinkedProfiles,
     has_text : BOOLEAN, has_comments : BOOLEAN, no_article : BOOLEAN,
     sub : SubBookSet]

\* lines 59-61: Source(url=article_url, cookies=source.cookies) dispatched
TempDriver(item) ==
    get_driver([url |-> item.url, html |-> [page |-> FALSE, markers |-> {}],
                is_forum |-> FALSE], item.profile)

\* lines 55-69: the delegated book (none: fallen back to the generic path).
\* An exception of get_driver or of the delegated driver is caught.
SubBook(item) ==
    IF item.has_url /\ ~item.no_article
          /\ TempDriver(item) \notin {"GenericDriver", "HackerNewsDriver", "ValueError"}
          /\ item.sub.outcome = "book"
    THEN item.sub
    ELSE [outcome |-> "none", chapters |-> <<>>]

\* temp_driver.__class__.__name__.replace("Driver", "")
SiteLabel(class) ==
    CASE class = "ForumDriver" -> "Forum"
      [] class = "WordPressDriver" -> "WordPress"
      [] class = "SubstackDriver" -> "Substack"
      [] class = "RedditDriver" -> "Reddit"
      [] class = "YouTubeDriver" -> "YouTube"
      [] OTHER -> "Source"

\* lines 74-75: f"linked_{chap.uid}", f"linked_{chap.filename}"
Unprefixed(text) == text
Linked(text) == <<"linked_">> \o text

\* lines 72-82: the chapters of the delegated book, renamed
RECURSIVE LinkedChapters(_)
LinkedChapters(chaps) ==
    IF chaps = <<>> THEN <<>>
    ELSE <<[Head(chaps) EXCEPT !.uid = Linked(@), !.filename = Linked(@)]>>
             \o LinkedChapters(Tail(chaps))

\* The last chapter of the list with the flag set (<<>>: none), as the loop
\* of lines 72-82 and the later branches leave art_chap and sub_com_chap.
RECURSIVE LastFlagged(_, _)
LastFlagged(chaps, flag) ==
    IF chaps = <<>> THEN <<>>
    ELSE IF chaps[Len(chaps)][flag] THEN <<chaps[Len(chaps)]>>
    ELSE LastFlagged(SubSeq(chaps, 1, Len(chaps) - 1), flag)

TocLink(chap, title) == [href |-> chap.filename, title |-> title, uid |-> chap.uid]

\* lines 105, 121: the chapter HN builds itself for the article or the text
OwnArticle == HnChapter("HN Title", <<"article">>, <<"article", ".xhtml">>, TRUE, FALSE)

\* line 147
HnComments ==
    HnChapter("HN Comments", <<"hn_comments">>, <<"hn_comments", ".xhtml">>, FALSE, TRUE)

\* lines 150-165: toc_structure; an entry with children is the tuple
\* (link, children)
HnToc(art, sub_com, com, site_label) ==
    LET children ==
            (IF sub_com # <<>>
             THEN <<TocLink(sub_com[1], <<site_label, " Comments">>)>> ELSE <<>>)
                \o (IF com # <<>> THEN <<TocLink(com[1], <<"HN Comments">>)>> ELSE <<>>)
    IN  IF art # <<>>
        THEN <<[link |-> TocLink(art[1], <<"Article">>), children |-> children]>>
        ELSE [k \in 1..Len(children) |-> [link |-> children[k], children |-> <<>>]]

NoHnBook == [returned |-> FALSE, none |-> FALSE, title |-> "", chapters |-> <<>>,
             toc_structure |-> <<>>]

\* HackerNewsDriver.prepare_book_data
hn_prepare_book_data(item) ==
    IF ~item.fetched THEN [NoHnBook EXCEPT !.returned = TRUE, !.none = TRUE]
    ELSE LET wants_article == item.has_url /\ ~item.no_article
             sub_book == SubBook(item)
             delegated == sub_book.outcome = "book"
             site_label == IF wants_article THEN SiteLabel(TempDriver(item)) ELSE "Source"
             article ==
                 IF ~(wants_article \/ item.has_text) THEN <<>>
                 ELSE IF delegated THEN LinkedChapters(sub_book.chapters)
                 ELSE <<OwnArticle>>
             com == IF item.has_comments THEN <<HnComments>> ELSE <<>>
         IN  [returned |-> TRUE, none |-> FALSE, title |-> "HN Title",
              chapters |-> article \o com,
              toc_structure |-> HnToc(LastFlagged(article, "is_article"),
                                      LastFlagged(article, "is_comments"),
                                      com, site_label)]

InitHn ==
    /\ hn_item \in HnItems
    /\ hn_book = NoHnBook
    /\ OthersUnused("hn")

HnPrepareBookData ==
    /\ ~hn_book.returned
    /\ hn_book' = hn_prepare_book_data(hn_item)
    /\ UNCHANGED hn_item

NextHn ==
    /\ HnPrepareBookData
    /\ OthersUnchanged("hn")

SpecHn == InitHn /\ [][NextHn]_vars

(***************************************************************************)
(* The page loop of ForumDriver.prepare_book_data (drivers/forum.py        *)
(* 84-141).  An option that is None or 0 is 0; final_page names the final   *)
(* URL by the page it is the URL of; a block is (page, number of posts).   *)
(* _has_next_page gives up after page 500; the model keeps the test and    *)
(* scales the number down to PageCeiling.                                  *)
(***************************************************************************)
PageCeiling == 2
MaxLimit == 2
MaxPostsPerPage == 2
MaxPageList == 2

ForumOptions ==
    [max_pages : 0..MaxLimit, max_posts : 0..MaxLimit,
     target_pages : SeqsUpTo(1..(PageCeiling + 1), MaxPageList)]

\* sum(len(b[1]) for b in page_blocks)
RECURSIVE TotalPosts(_)
TotalPosts(blocks) ==
    IF blocks = <<>> THEN 0 ELSE Head(blocks).posts + TotalPosts(Tail(blocks))

\* list(islice(posts, remaining))
TakeAll(n, remaining) == n
Take(n, remaining) == IF n < remaining THEN n ELSE remaining

\* _has_next_page(soup, page, final_url): next_link says whether the page
\* shows a way to a later page
HasNextPageNoCeiling(current_page, next_link) == next_link
HasNextPage(current_page, next_link) ==
    IF current_page > PageCeiling THEN FALSE ELSE next_link

\* break: the loop is left for the reason given
Break(st, why) == [st EXCEPT !.pc = "done", !.stop = why]

\* lines 110-141: the rest of an iteration once the page came with a final
\* URL not seen before
ForumKeepPage(opts, st, nposts, next_link) ==
    LET remaining == opts.max_posts - TotalPosts(st.page_blocks)
        kept == IF opts.max_posts > 0 THEN Take(nposts, remaining) ELSE nposts
        blocks == IF nposts > 0
                  THEN Append(st.page_blocks, [page |-> st.page, posts |-> kept])
                  ELSE st.page_blocks
        st1 == [st EXCEPT !.page_blocks = blocks]
        st2 == [st1 EXCEPT !.seen_pages = @ \cup {st.page}]
    IN  IF nposts > 0 /\ opts.max_posts > 0 /\ remaining <= 0
        THEN Break(st, "max_posts")
        ELSE IF opts.max_posts > 0 /\ TotalPosts(blocks) >= opts.max_posts
        THEN Break(st1, "max_posts")
        ELSE IF opts.target_pages # <<>> THEN st2
        ELSE IF ~HasNextPage(st.page, next_link) THEN Break(st2, "no_next")
        ELSE [st2 EXCEPT !.page = @ + 1]

\* lines 93-108: the iteration from the seen_pages test on, for the page
\* the head of the loop settled
ForumFetchPage(opts, st, got, final_page, nposts, next_link) ==
    LET fetched == [st EXCEPT !.fetched = Append(@, st.page)]
    IN  IF st.page \in st.seen_pages THEN [st EXCEPT !.page = @ + 1]
        ELSE IF ~got
        THEN IF opts.target_pages # <<>> THEN fetched ELSE Break(fetched, "missing")
        ELSE IF final_page \in st.seen_urls THEN Break(fetched, "seen_url")
        ELSE ForumKeepPage(opts, [fetched EXCEPT !.seen_urls = @ \cup {final_page}],
                           nposts, next_link)

\* lines 84-141: one iteration of "while True"
ForumIteration(opts, st, got, final_page, nposts, next_link) ==
    IF opts.target_pages # <<>>
    THEN IF st.pages_sequence = <<>> THEN Break(st, "list_exhausted")
         ELSE ForumFetchPage(opts,
                  [st EXCEPT !.page = Head(st.pages_sequence),
                             !.pages_sequence = Tail(st.pages_sequence)],
                  got, final_page, nposts, next_link)
    ELSE IF opts.max_pages > 0 /\ st.page > opts.max_pages
    THEN Break(st, "max_pages")
    ELSE ForumFetchPage(opts, st, got, final_page, nposts, next_link)

InitForum ==
    /\ fo_opts \in ForumOptions
    /\ forum = [page |-> 1, pages_sequence |-> fo_opts.target_pages, seen_pages |-> {},
                seen_urls |-> {}, page_blocks |-> <<>>, fetched |-> <<>>,
                pc |-> "loop", stop |-> ""]
    /\ OthersUnused("forum")

\* One iteration; the server answers the fetch of the page as it likes: with
\* or without content, under any final URL, with any number of posts, with
\* or without a link to a next page.
ForumLoop(got, final_page, nposts, next_link) ==
    /\ forum.pc = "loop"
    /\ forum' = ForumIteration(fo_opts, forum, got, final_page, nposts, next_link)
    /\ UNCHANGED fo_opts

NextForum ==
    /\ \E got \in BOOLEAN, final_page \in 1..(PageCeiling + 2),
          nposts \in 0..MaxPostsPerPage, next_link \in BOOLEAN :
           ForumLoop(got, final_page, nposts, next_link)
    /\ OthersUnchanged("forum")

SpecForum == InitForum /\ [][NextForum]_vars

\* The loop is a straight run of code: it is not suspended for ever.
SpecForumLive == SpecForum /\ WF_vars(NextForum)

(***************************************************************************)
(* The default path of ImageProcessor.fetch_image_data                     *)
(* (image_processor.py 283-345): the loop over refs with the primary       *)
(* client, then _requests_fetch.  A referer is a string, None is "none".   *)
(***************************************************************************)
\* f"{parsed.scheme}://{parsed.netloc}"
OriginOf(u) == u.scheme \o "://" \o (IF u.www THEN "www." ELSE "") \o u.host

\* The referers a caller passes: none, an empty string, the page's URL, a
\* page URL that is the site's origin.
RefererArguments == {None, "", "https://site.example/thread", "https://site.example"}

\* The candidate URLs of the default path
RefererUrls == {UrlA, UrlAVariant, UrlAProxied}

\* lines 289-297: refs
Refs(u, referer) ==
    LET given == IF referer \in {None, ""} THEN <<>> ELSE <<referer>>
        origin == IF given = <<OriginOf(u)>> THEN <<>> ELSE <<OriginOf(u)>>
    IN  given \o origin \o <<None>>

\* One request: the client, what was asked for, the Referer sent, the outcome
Request(client, kind, ref, out) ==
    [client |-> client, kind |-> kind, referer |-> ref, out |-> out]

\* lines 317-334: after an attempt that gave no (headers, data): the first
\* attempt leaves the loop, a later one goes on to the next referer
AfterFailedAttempt(st) ==
    IF st.idx = 1 THEN [st EXCEPT !.pc = "requests"]
    ELSE IF st.idx < Len(st.refs) THEN [st EXCEPT !.idx = @ + 1, !.pc = "headers"]
    ELSE [st EXCEPT !.pc = "requests"]

InitReferer ==
    /\ ifd_args \in [url : RefererUrls, referer : RefererArguments]
    /\ ifd = [refs |-> Refs(ifd_args.url, ifd_args.referer), idx |-> 1, pc |-> "headers",
              requests |-> <<>>, result |-> "pending", last_err |-> "No data"]
    /\ OthersUnused("referer")

\* lines 303-307, 314-334: fetch_with_retry(..., 'headers', referer=ref)
ImageDataHeaders(out) ==
    /\ ifd.pc = "headers"
    /\ LET sent == [ifd EXCEPT !.requests =
                        Append(@, Request("aiohttp", "headers", ifd.refs[ifd.idx], out))]
       IN  ifd' = CASE out = "ok" -> [sent EXCEPT !.pc = "bytes"]
                    [] out = "none" ->
                        AfterFailedAttempt([sent EXCEPT !.last_err = "No headers"])
                    [] out = "raises" ->
                        AfterFailedAttempt([sent EXCEPT !.last_err = "exception"])
    /\ UNCHANGED ifd_args

\* lines 308-334: fetch_with_retry(..., 'bytes', referer=ref)
ImageDataBytes(out) ==
    /\ ifd.pc = "bytes"
    /\ LET sent == [ifd EXCEPT !.requests =
                        Append(@, Request("aiohttp", "bytes", ifd.refs[ifd.idx], out))]
       IN  ifd' = CASE out = "ok" -> [sent EXCEPT !.pc = "done", !.result = "payload"]
                    [] out = "none" ->
                        AfterFailedAttempt([sent EXCEPT !.last_err = "No data"])
                    [] out = "raises" ->
                        AfterFailedAttempt([sent EXCEPT !.last_err = "exception"])
    /\ UNCHANGED ifd_args

\* lines 341-345: _requests_fetch(session, url, image_headers, referer) and
\* the return; status 0 is "no status"
ImageDataRequestsFetch(d_req, status_req) ==
    /\ ifd.pc = "requests"
    /\ ifd' = [ifd EXCEPT
                 !.requests = Append(@, Request("requests", "bytes", ifd_args.referer,
                                                IF d_req THEN "ok" ELSE "none")),
                 !.pc = "done",
                 !.result = IF d_req /\ (status_req = 0 \/ status_req < 400)
                            THEN "payload" ELSE ifd.last_err]
    /\ UNCHANGED ifd_args

NextReferer ==
    /\ \/ \E out \in {"ok", "none", "raises"} : ImageDataHeaders(out)
       \/ \E out \in {"ok", "none", "raises"} : ImageDataBytes(out)
       \/ \E d_req \in BOOLEAN, status_req \in {0, 200, 403} :
              ImageDataRequestsFetch(d_req, status_req)
    /\ OthersUnchanged("referer")

SpecReferer == InitReferer /\ [][NextReferer]_vars

(***************************************************************************)
(* One image resolution with the event loop's clock: _process_tag of       *)
(* ImageProcessor (image_processor.py 615, 684-702) and of                 *)
(* ForumImageProcessor (1157-1165).  The clock counts seconds since        *)
(* "started"; it advances while the task is suspended in fetch_image_data. *)
(***************************************************************************)
IMG_MAX_PER_IMAGE_SEC == 6
MaxFetchSec == 7

\* asyncio.get_event_loop().time() - started > IMG_MAX_PER_IMAGE_SEC
BudgetNeverUsed(now, started) == FALSE
BudgetUsed(now, started) == now - started > IMG_MAX_PER_IMAGE_SEC

\* One call of fetch_image_data: the candidate, when it started, what became
\* of its answer ("pending", "none", "invalid", "valid")
CandidateFetch(u, at) == [url |-> u, at |-> at, yielded |-> "pending"]

\* The candidate list of the resolution: candidate_urls for the generic
\* processor, attach_target for the forum one; empty when the element is
\* skipped before any fetch.
ResolveCandidates(p, e) ==
    IF p = "generic"
    THEN LET final_src == GenericFinalSrc(e)
         IN  IF IsNone(final_src) \/ IsNonHttpUri(final_src) \/ UrlJoinRaises(final_src)
             THEN <<>>
             ELSE CandidateUrls(PageUrl, e, UrlJoin(PageUrl, final_src))
    ELSE LET final_src == ForumFinalSrc(e)
         IN  IF IsNone(final_src) \/ IsNonHttpUri(final_src)
                  \/ UrlJoinRaises(StripViewSource(final_src))
             THEN <<>>
             ELSE IF IsAvatar(ForumUrls(e).full_url) \/ ~IsImageLike(ForumUrls(e).full_url)
             THEN <<>>
             ELSE ForumUrls(e).cands

\* The elements resolved: those of the documents above, one whose srcset
\* offers two wide pictures, and a 1x1 GIF of a few bytes under a name no junk
\* keyword matches.
ResolveElements ==
    ImgElements \cup
        {Img(UrlA, NoUrl, <<[w |-> 640, url |-> UrlCopy], [w |-> 800, url |-> UrlB]>>,
             NoUrl),
         Img(UrlDot, NoUrl, <<>>, NoUrl)}

InitResolve ==
    /\ \E p \in {"generic", "forum"}, e \in ResolveElements :
           rs = [proc |-> p, element |-> e, cands |-> <<>>,
                 started |-> 0, now |-> 0, idx |-> 0, fetches |-> <<>>, pc |-> "start",
                 result |-> "pending"]
    /\ OthersUnused("resolve")

\* _process_tag up to its first await: the candidate list is built; no asset
\* is known yet, so the first candidate is fetched (lines 686-690, 1158)
\* unless there is none.
ResolveStart ==
    /\ rs.pc = "start"
    /\ LET cands == ResolveCandidates(rs.proc, rs.element)
       IN  rs' = IF cands = <<>>
                     \/ (rs.proc = "generic" /\ BudgetUsed(rs.now, rs.started))
                 THEN [rs EXCEPT !.cands = cands, !.pc = "done", !.result = "failed"]
                 ELSE [rs EXCEPT !.cands = cands, !.pc = "fetching", !.idx = 1,
                                 !.fetches = <<CandidateFetch(cands[1], rs.now)>>]

\* fetch_image_data answers after dur seconds (lines 690-702 and 1158-1165):
\* valid bytes end the resolution; otherwise the generic processor goes on to
\* the next candidate within the limit and the budget, the forum one returns.
ResolveFetchReturn(got, dur) ==
    /\ rs.pc = "fetching"
    /\ LET cand == rs.cands[rs.idx]
           data == IF got THEN ServerContent(cand) ELSE NoData
           opt == optimize_and_get_details(data)
           yielded == IF data = NoData THEN "none"
                      ELSE IF opt.err # None THEN "invalid" ELSE "valid"
           now == rs.now + dur
           next == rs.idx + 1
           back == [rs EXCEPT !.now = now, !.fetches[rs.idx].yielded = yielded]
       IN  rs' = IF yielded = "valid"
                 THEN [back EXCEPT !.pc = "done", !.result = "new"]
                 ELSE IF rs.proc = "generic" /\ next <= Limit(rs.cands)
                         /\ ~BudgetUsed(now, rs.started)
                 THEN [back EXCEPT !.idx = next,
                          !.fetches = Append(@, CandidateFetch(rs.cands[next], now))]
                 ELSE [back EXCEPT !.pc = "done", !.result = "failed"]

NextResolve ==
    /\ \/ ResolveStart
       \/ \E got \in BOOLEAN, dur \in 0..MaxFetchSec : ResolveFetchReturn(got, dur)
    /\ OthersUnchanged("resolve")

SpecResolve == InitResolve /\ [][NextResolve]_vars

(***************************************************************************)
(* Claims about fetch_with_retry, checked under SpecFetch.                 *)
(***************************************************************************)
\* Attempts that end in a transport error or in an HTTP error that is
\* retried (>= 400, not 404, not 429, not in non_retry_statuses).
RetriedFailure(o) == o.kind \in {"transport", "http_error"}

OnlyRetriedFailures == \A i \in 1..Len(outcomes) : RetriedFailure(outcomes[i])

\* C3: fetch_with_retry issues at most max_retries GET requests; when every
\* attempt ends in a transport error or a retried HTTP error, the sleep after
\* failed attempt k (from 0) is backoff * 2^k, there is one such sleep before
\* every further attempt and none after the last, and the call returns none
\* once max_retries attempts have failed.
C3_RetryCeilingAndBackoff ==
    /\ requests <= max_retries
    /\ requests = Len(outcomes)
    /\ OnlyRetriedFailures =>
        /\ \A k \in 0..(Len(sleeps) - 1) : sleeps[k + 1] = backoff * Pow2(k)
        /\ fpc = "loop" => Len(sleeps) = requests
        /\ fpc = "done" /\ max_retries > 0 =>
              /\ requests = max_retries
              /\ Len(sleeps) = max_retries - 1
              /\ result.payload = None
        /\ requests = max_retries /\ max_retries > 0 => fpc = "done"

\* C3 witness: three attempts failed with retried errors, two backoff sleeps
\* were taken and the call has returned.
C3_Witness ==
    /\ fpc = "done"
    /\ OnlyRetriedFailures
    /\ requests = 3
    /\ Len(sleeps) = 2
    /\ \E i \in 1..3 : outcomes[i].kind = "transport"
    /\ \E i \in 1..3 : outcomes[i].kind = "http_error"

\* C4: a 404 response, or a response whose status is in non_retry_statuses,
\* is the last attempt: the call has returned none, no request follows it and
\* no sleep follows it (every sleep belongs to an earlier attempt).
C4_TerminalStatusEndsFetch ==
    \A i \in 1..Len(outcomes) :
        (outcomes[i].status = 404 \/ outcomes[i].status \in non_retry_statuses) =>
            /\ i = Len(outcomes)
            /\ requests = i
            /\ fpc = "done"
            /\ result.payload = None
            /\ Len(sleeps) = i - 1

\* C4 witness: a 403 under non_retry_statuses = {403} ended the call at the
\* first of three allowed attempts, with no sleep.
C4_Witness ==
    /\ non_retry_statuses = {403}
    /\ max_retries = 3
    /\ Len(outcomes) = 1
    /\ outcomes[1].status = 403
    /\ fpc = "done"
    /\ sleeps = <<>>

\* The Retry-After header is absent or a number of seconds.
NumericHeader(o) == o.header \in {None, "1", "5"}

C6_FailureReturnsFinalUrl ==
    (fpc = "done" /\ result.payload = None) => result.url = final_url

(***************************************************************************)
(* Claims about process_images.                                            *)
(***************************************************************************)
\* The asset a resolved tag was rewritten to (file names are unique).
AssetOfTag(t) ==
    CHOOSE a \in {book_assets[i] : i \in 1..Len(book_assets)} : a.filename = tag_src[t]

\* The URL whose fetch gave the tag its bytes.
FetchedUrl(t) == task[t].cands[task[t].idx]

Fetched(t) == how[t] \in {"new", "same_bytes"} /\ pc[t] = "done" /\ task[t].idx > 0
                 /\ \E c \in net_calls : c.tag = t

\* C1: two image resolutions running concurrently in one process_images call
\* never leave two Assets with identical content bytes in the asset list.
C1_ConcurrentResolutionsAddOneAsset ==
    \A t1 \in Tags, t2 \in Tags :
        (/\ t1 # t2
         /\ batch_of[t1] = batch_of[t2]
         /\ how[t1] = "new"
         /\ how[t2] = "new"
         /\ tag_src[t1] # tag_src[t2])
            => AssetOfTag(t1).content # AssetOfTag(t2).content

\* C2: when the same byte payload is fetched through two distinct URLs, one
\* resolution after the other, both resolutions end at one Asset and both URLs
\* are in that Asset's alt_urls.
C2_SamePayloadTwoUrlsOneAsset ==
    \A t1 \in Tags, t2 \in Tags :
        (/\ batch_of[t1] < batch_of[t2]
         /\ how[t1] = "new"
         /\ Fetched(t1)
         /\ Fetched(t2)
         /\ FetchedUrl(t1) # FetchedUrl(t2)
         /\ AssetOfTag(t1).content = AssetOfTag(t2).content)
            => /\ tag_src[t1] = tag_src[t2]
               /\ Contains(AssetOfTag(t1).alt_urls, FetchedUrl(t1))
               /\ Contains(AssetOfTag(t1).alt_urls, FetchedUrl(t2))

\* Every reference of the element is a data:/mailto: URI or junk for the
\* processor.
AllReferencesJunk(who, e) ==
    /\ IsJunk(who, e.src) \/ IsNonHttpUri(e.src)
    /\ IsJunk(who, e.data_src) \/ IsNonHttpUri(e.data_src)
    /\ \A i \in 1..Len(e.srcset) :
           IsJunk(who, e.srcset[i].url) \/ IsNonHttpUri(e.srcset[i].url)

\* C8: no URL for which the processor's is_junk holds is passed to
\* fetch_image_data, and an element all of whose references are junk causes no
\* network call and no Asset.
C8_JunkNeverFetched ==
    /\ \A c \in net_calls : ~IsJunk(proc, c.url)
    /\ \A t \in Tags :
           (AllReferencesJunk(proc, elements[t]) /\ IsNone(elements[t].link_href))
               => /\ ~\E c \in net_calls : c.tag = t
                  /\ tag_src[t] = <<>>

\* The candidate URLs of a tag's reference.
CandidatesOfTag(t) ==
    IF proc = "generic"
    THEN LET full_url == UrlJoin(PageUrl, GenericFinalSrc(elements[t]))
             cands == CandidateUrls(PageUrl, elements[t], full_url)
         IN  {full_url} \cup {cands[i] : i \in 1..Len(cands)}
    ELSE {ForumUrls(elements[t]).full_url, ForumUrls(elements[t]).viewer_url,
          ForumUrls(elements[t]).attachment_base} \ {NoUrl}

\* The URL is, exactly or after normalization, a URL the asset is known by.
KnownBy(a, u) ==
    \E i \in 1..(Len(a.alt_urls) + 1) :
        LET au == (<<a.original_url>> \o a.alt_urls)[i]
        IN  au = u \/ UrlSame(au, u)

\* C9: a resolution one of whose candidate URLs matches, exactly or after
\* normalization, the original_url or an alt_url of an Asset already in the
\* list starts no fetch.
C9_KnownUrlIsNotFetched ==
    [][\A t \in Tags :
          (pc[t] = "waiting" /\ pc'[t] = "fetching")
              => ~\E c \in CandidatesOfTag(t) :
                     \E i \in 1..Len(book_assets) : KnownBy(book_assets[i], c)]_vars

FilenamesUnique ==
    \A i \in 1..Len(book_assets), j \in 1..Len(book_assets) :
        i # j => book_assets[i].filename # book_assets[j].filename

\* The name is the first free one of base.ext, base_1.ext, base_2.ext, ...
\* for the base derived from the asset's URL.
IsFirstFreeName(assets, a) ==
    LET stem0 == FileStem(a.original_url)
        stem == IF StemTooShort(stem0) THEN HashStem(a.original_url) ELSE stem0
        ext == a.filename[Len(a.filename)]
    IN  \E k \in 0..Len(assets) :
            /\ a.filename = FileName(stem, k, ext)
            /\ \A j \in 0..(k - 1) : NameTaken(assets, FileName(stem, j, ext))
            /\ ~NameTaken(assets, a.filename)

AppendsFirstFreeName ==
    Len(book_assets') = Len(book_assets) + 1
        => IsFirstFreeName(book_assets, book_assets'[Len(book_assets')])

\* C10: in every reachable state no two Assets of the list have the same
\* filename, and every Asset appended takes the first free name base, base_1,
\* base_2, ... whatever the interleaving of the concurrent resolutions.
C10_FilenamesUnique == []FilenamesUnique /\ [][AppendsFirstFreeName]_vars

\* Two concurrent resolutions derive the same name and the later one takes _1.
C10_Witness ==
    \E t1 \in Tags, t2 \in Tags :
        /\ batch_of[t1] = batch_of[t2]
        /\ how[t1] = "new"
        /\ how[t2] = "new"
        /\ tag_src[t1] = FileName(<<"photo">>, 0, ".jpg")
        /\ tag_src[t2] = FileName(<<"photo">>, 1, ".jpg")

(***************************************************************************)
(* Claims about the fallback to the second HTTP client.                    *)
(***************************************************************************)
\* C7: for one URL, requests is called only directly after the aiohttp path
\* failed to yield a payload for that URL, and at most once.
C7_SecondaryOnlyAfterPrimaryFailed ==
    \A i \in 1..Len(calls) :
        calls[i].client = "requests"
            => /\ i > 1
               /\ calls[i - 1].client = "aiohttp"
               /\ calls[i - 1].url = calls[i].url
               /\ ~calls[i - 1].got
               /\ \A j \in 1..Len(calls) :
                      (j # i /\ calls[j].url = calls[i].url)
                          => calls[j].client = "aiohttp"

(***************************************************************************)
(* Claims about create_bundle, checked under SpecBundle.                   *)
(***************************************************************************)
\* C11: in the BookData create_bundle returns no two image Assets share a
\* filename.
C11_BundleFilenamesUnique == bundle.returned => NamesDistinct(bundle.images)

(***************************************************************************)
(* Claims about _enrich_comment_tree, checked under SpecEnrich.            *)
(***************************************************************************)
RECURSIVE TopAncestor(_, _)
TopAncestor(F, x) == IF F.parent[x] = 0 THEN x ELSE TopAncestor(F, F.parent[x])

RECURSIVE Depth(_, _)
Depth(F, x) == IF F.parent[x] = 0 THEN 1 ELSE 1 + Depth(F, F.parent[x])

\* C12: after _enrich_comment_tree, in every children_data list each child but
\* the last has next_sibling_id equal to the id of the child after it, and the
\* last child has no next_sibling_id.
C12_NextSiblingLinks ==
    passes >= 1 =>
        \A x \in 1..forest.n :
            LET ch == ChildrenData(forest, x)
            IN  \A i \in 1..Len(ch) :
                    IF i < Len(ch)
                    THEN fields.next_sibling_id[ch[i]] = forest.id[ch[i + 1]]
                    ELSE Get(fields.next_sibling_id[ch[i]]) = None

\* A reply has two replies of its own, and the forest was enriched.
C12_Witness ==
    /\ passes >= 1
    /\ \E x \in 1..forest.n : Depth(forest, x) = 2 /\ Len(ChildrenData(forest, x)) = 2

\* C13: after _enrich_comment_tree, every non-root node has parent_id equal to
\* its parent's id and root_id equal to the id of its top-level ancestor.
C13_ParentAndRootLinks ==
    passes >= 1 =>
        \A x \in 1..forest.n :
            forest.parent[x] # 0 =>
                /\ fields.parent_id[x] = forest.id[forest.parent[x]]
                /\ fields.root_id[x] = forest.id[TopAncestor(forest, x)]

\* A chain four nodes deep has been enriched.
C13_Witness ==
    /\ passes >= 1
    /\ \E x \in 1..forest.n : Depth(forest, x) = 4

\* C14: after _enrich_comment_tree, every root but the last has next_root_id
\* equal to the id of the root after it, every descendant carries the
\* next_root_id of its root, and no node of the last root's thread has one.
C14_NextRootLinks ==
    passes >= 1 =>
        LET roots == ChildrenData(forest, 0)
        IN  /\ \A i \in 1..(Len(roots) - 1) :
                   fields.next_root_id[roots[i]] = forest.id[roots[i + 1]]
            /\ \A x \in 1..forest.n :
                   Get(fields.next_root_id[x])
                       = Get(fields.next_root_id[TopAncestor(forest, x)])
            /\ \A x \in 1..forest.n :
                   TopAncestor(forest, x) = roots[Len(roots)]
                       => Get(fields.next_root_id[x]) = None

\* Two threads, each with a reply, have been enriched.
C14_Witness ==
    /\ passes >= 1
    /\ Len(ChildrenData(forest, 0)) = 2
    /\ \A r \in 1..forest.n :
           forest.parent[r] = 0 => ChildrenData(forest, r) # <<>>

\* C15: applying _enrich_comment_tree a second time leaves exactly the
\* derived fields of the first application.
C15_EnrichIdempotent == passes >= 2 => fields = once

\* A forest of two threads with replies was enriched twice.
C15_Witness ==
    /\ passes = 2
    /\ Len(ChildrenData(forest, 0)) >= 2
    /\ \E x \in 1..forest.n : Depth(forest, x) = 3

(***************************************************************************)
(* Claims about failures inside process_images, checked under Spec.        *)
(***************************************************************************)
\* The candidate whose fetch the suspended task t waits for.
CurrentCandidate(t) ==
    IF proc = "generic" THEN task[t].cands[task[t].idx] ELSE task[t].cands[1]

\* The last fetch of task t yields nothing the validation accepts: the server
\* has no bytes for it, or a picture of 12 KiB or more under 20 px wide.
LastFetchUnusable(t) ==
    /\ pc[t] = "fetching"
    /\ pc'[t] = "done"
    /\ LET data == ServerContent(CurrentCandidate(t))
       IN  data = NoData \/ (data.large /\ data.pixel)

\* The task of tag t ends in this step on a failed resolution.
FailsNow(t) ==
    /\ how[t] = "pending"
    /\ how'[t] \in {"failed", "error"}

\* A failed resolution leaves the asset list and its tables as they were,
\* leaves the element unresolved and touches no other task.
FailureContained ==
    \A t \in Tags :
        /\ LastFetchUnusable(t) => FailsNow(t)
        /\ (pc[t] = "waiting" /\ pc'[t] = "done" /\ elements[t].src = UrlMalformed)
               => FailsNow(t)
        /\ FailsNow(t) =>
               /\ book_assets' = book_assets
               /\ hash_map' = hash_map
               /\ preload_map' = preload_map
               /\ pc'[t] = "done"
               /\ tag_src'[t] = <<>>
               /\ \A o \in Tags \ {t} :
                      /\ pc'[o] = pc[o]
                      /\ how'[o] = how[o]
                      /\ tag_src'[o] = tag_src[o]
                      /\ task'[o] = task[o]

InsideSemaphore == {i \in 1..Len(sources) : sp_pc[i] \in {"driver", "closing"}}

\* The sources whose driver returned a book, in the order they were passed.
RECURSIVE Succeeded(_)
Succeeded(i) ==
    IF i > Len(sources) THEN <<>>
    ELSE (IF sources[i].kind = "book" THEN <<i>> ELSE <<>>) \o Succeeded(i + 1)

\* C17: when the driver of a source raises or returns None, process_urls
\* still returns exactly the books of the sources whose driver returned one,
\* the slot of the failed source is given back, and no task is cancelled:
\* process_urls raises only when get_driver itself raised for some source.
C17_FailedSourceIsolated ==
    /\ permits + Cardinality(InsideSemaphore) = GLOBAL_SEMAPHORE
    /\ \A i \in 1..Len(sources) :
           (sp_pc[i] = "done" /\ sources[i].kind # "malformed")
               => sp_result[i] = (IF sources[i].kind = "book" THEN "book" ELSE "none")
    /\ returned.state = "raised" => \E i \in 1..Len(sources) : sources[i].kind = "malformed"
    /\ returned.state = "returned" =>
           /\ returned.books = Succeeded(1)
           /\ permits = GLOBAL_SEMAPHORE

\* process_urls returned the book of one source although the driver of
\* another one, holding cookies, raised and that of a third returned None.
C17_Witness ==
    /\ returned.state = "returned"
    /\ Len(returned.books) = 1
    /\ \E i \in 1..Len(sources) : sources[i].kind = "raises" /\ sources[i].cookies
    /\ \E i \in 1..Len(sources) : sources[i].kind = "none"

\* C18: at every moment at most 2 sources are inside the region guarded by
\* GLOBAL_SEMAPHORE.
C18_AtMostTwoInside == Cardinality(InsideSemaphore) <= 2

\* Two sources are inside and a third one waits for a slot.
C18_Witness ==
    /\ Cardinality(InsideSemaphore) = 2
    /\ \E i \in 1..Len(sources) : sp_pc[i] = "waiting"

(***************************************************************************)
(* Claims about get_article_content, checked under SpecArticle.            *)
(***************************************************************************)
\* The fetches among the attempts, in the order they were made.
RECURSIVE FetchesOf(_)
FetchesOf(tried) ==
    IF tried = <<>> THEN <<>>
    ELSE (IF Head(tried).step = "extract" THEN <<>> ELSE <<Head(tried).step>>)
             \o FetchesOf(Tail(tried))

FetchOrder == <<"live", "requests", "wayback", "snapshot">>

IsPrefix(p, q) == Len(p) <= Len(q) /\ \A i \in 1..Len(p) : p[i] = q[i]

\* Some attempt of the call produced an extracted article.
SomeExtractSucceeded == \E i \in 1..Len(art_tried) :
                            art_tried[i].step = "extract" /\ art_tried[i].ok

\* C19: a call without force_archive tries the live fetch, then one fetch
\* through the second client, then the archived snapshot, in this order; it
\* calls itself at most once; when no attempt yields an article it returns
\* success = false, and GenericDriver.prepare_book_data then returns None.
C19_ArticleFallbackOrder ==
    /\ art_depth <= 1
    /\ LET fetches == FetchesOf(art_tried)
       IN  IF art_args.force_archive
           THEN IsPrefix(fetches, <<"wayback", "snapshot">>)
           ELSE \/ IsPrefix(fetches, FetchOrder)
                \/ IsPrefix(fetches, <<"live", "wayback", "snapshot">>)
    /\ \A i \in 1..Len(art_tried) :
           (art_tried[i].step = "requests")
               => i > 1 /\ art_tried[i - 1] = Attempt("live", FALSE)
    /\ art_pc = "returned" => (art_result.success <=> SomeExtractSucceeded)
    /\ art_book # "pending" => (art_book = "none" <=> ~art_result.success)

\* Live fetch, second client, Wayback lookup and snapshot were all tried and
\* failed, and the driver returned None.
C19_Witness ==
    /\ ~art_args.force_archive
    /\ art_tried = <<Attempt("live", FALSE), Attempt("requests", FALSE),
                     Attempt("wayback", TRUE), Attempt("snapshot", FALSE)>>
    /\ art_depth = 1
    /\ art_book = "none"

(***************************************************************************)
(* Claims about DriverDispatcher.get_driver, checked under SpecDispatch.   *)
(***************************************************************************)
RecognisedAliases == {"forum", "xenforo", "wordpress", "substack", "hn", "hackernews",
                      "reddit", "youtube", "generic"}

HasRecognisedAlias == profile.found /\ Lower(profile.driver_alias) \in RecognisedAliases

Delegated ==
    /\ hn_item.fetched
    /\ hn_item.has_url
    /\ ~hn_item.no_article
    /\ TempDriver(hn_item) \notin {"GenericDriver", "HackerNewsDriver", "ValueError"}
    /\ hn_item.sub.outcome = "book"

C22_MaxPostsRespected ==
    fo_opts.max_posts > 0 => TotalPosts(forum.page_blocks) <= fo_opts.max_posts

\* The limit cut a page short: two pages were fetched and the second one,
\* offering more posts than were left, filled the limit exactly.
C22_Witness ==
    /\ fo_opts.max_posts = MaxLimit
    /\ Len(forum.page_blocks) = 2
    /\ TotalPosts(forum.page_blocks) = fo_opts.max_posts
    /\ forum.stop = "max_posts"

\* C23: with max_pages = N > 0 never more than N pages are fetched, whatever
\* the other options are.
C23_MaxPagesRespected ==
    fo_opts.max_pages > 0 => Len(forum.fetched) <= fo_opts.max_pages

\* The page numbers of the blocks collected
BlockPages(blocks) == {blocks[i].page : i \in 1..Len(blocks)}

\* Sequential mode: no page list was given
Sequential == fo_opts.target_pages = <<>>

\* What the loop guarantees at every moment
PageLoopBounded ==
    /\ Sequential =>
         /\ Len(forum.fetched) <= PageCeiling + 1
         /\ \A i \in 1..Len(forum.fetched) : forum.fetched[i] = i
         /\ forum.pc = "done" =>
              forum.stop \in {"missing", "seen_url", "no_next", "max_pages", "max_posts"}
         /\ (forum.pc = "done" /\ fo_opts.max_pages = 0 /\ fo_opts.max_posts = 0) =>
              forum.stop \in {"missing", "seen_url", "no_next"}
    /\ ~Sequential =>
         /\ Len(forum.fetched) + Len(forum.pages_sequence) <= Len(fo_opts.target_pages)
         /\ forum.pc = "done" => forum.stop \in {"list_exhausted", "seen_url", "max_posts"}
         /\ (forum.pc = "done" /\ fo_opts.max_posts = 0 /\ forum.stop # "seen_url") =>
              forum.pages_sequence = <<>>
    /\ Cardinality(BlockPages(forum.page_blocks)) = Len(forum.page_blocks)

\* C30: the page loop ends whatever the server answers: sequential mode at a
\* missing page, a final URL seen before, a page without a next link, or after
\* page PageCeiling + 1 (501 in the code) at the latest, page-list mode when
\* the list is used up; no page number contributes two blocks.
C30_PageLoopTerminates ==
    /\ <>(forum.pc = "done")
    /\ []PageLoopBounded

\* The server offered a next link on every page and a fresh URL each time, and
\* the loop stopped on its own after the page past the ceiling.
C30_Witness ==
    /\ Sequential
    /\ fo_opts.max_pages = 0
    /\ fo_opts.max_posts = 0
    /\ forum.pc = "done"
    /\ forum.stop = "no_next"
    /\ Len(forum.fetched) = PageCeiling + 1
    /\ Len(forum.page_blocks) = PageCeiling + 1

(***************************************************************************)
(* Claims about fetch_image_data's referers, checked under SpecReferer.    *)
(***************************************************************************)
\* The referers the primary client has sent so far, one per attempt
RECURSIVE RefererAttempts(_)
RefererAttempts(reqs) ==
    IF reqs = <<>> THEN <<>>
    ELSE LET rest == RefererAttempts(Tail(reqs))
             r == Head(reqs)
         IN  IF r.client = "aiohttp" /\ r.kind = "headers" THEN <<r.referer>> \o rest
             ELSE rest

\* C24: for one candidate URL the referers are tried in the order explicit
\* referer, page origin, none; the secondary client is used only after all of
\* them were tried with the primary client.
C24_RefererRotation ==
    /\ IsPrefix(RefererAttempts(ifd.requests), ifd.refs)
    /\ (\E i \in 1..Len(ifd.requests) : ifd.requests[i].client = "requests") =>
           RefererAttempts(ifd.requests) = ifd.refs

RECURSIVE Pos(_, _)
Pos(list, u) ==
    IF list = <<>> THEN 0
    ELSE IF list[Len(list)] = u /\ ~Contains(SubSeq(list, 1, Len(list) - 1), u)
    THEN Len(list)
    ELSE Pos(SubSeq(list, 1, Len(list) - 1), u)

\* The direct reference of the element being resolved
DirectReference == UrlJoin(PageUrl, GenericFinalSrc(rs.element))

\* C26: in the generic candidate list the unwrapped origin of a proxied direct
\* reference precedes the direct reference, and a wider srcset entry precedes
\* a narrower one.
C26_CandidateOrder ==
    (rs.proc = "generic" /\ rs.cands # <<>>) =>
        LET origin == ExtractOriginFromProxy(DirectReference)
            entries == rs.element.srcset
        IN  /\ (~IsNone(origin) /\ Contains(rs.cands, origin)
                   /\ Contains(rs.cands, DirectReference)) =>
                  Pos(rs.cands, origin) < Pos(rs.cands, DirectReference)
            /\ \A i, j \in 1..Len(entries) :
                  LET wide == UrlJoin(PageUrl, entries[i].url)
                      narrow == UrlJoin(PageUrl, entries[j].url)
                  IN  (entries[i].w > entries[j].w /\ wide # narrow
                          /\ Contains(rs.cands, wide) /\ Contains(rs.cands, narrow)) =>
                         Pos(rs.cands, wide) < Pos(rs.cands, narrow)

\* C27: a picture with a width or height below 20 pixels is refused by
\* optimize_and_get_details whatever its size in bytes, so no resolution ends
\* with a new Asset made of one.
C27_SmallPictureRefused ==
    /\ \A i \in 1..Len(rs.fetches) :
           ServerContent(rs.fetches[i].url).pixel => rs.fetches[i].yielded # "valid"
    /\ (rs.result = "new" /\ ServerContent(rs.cands[rs.idx]).pixel) =>
           optimize_and_get_details(ServerContent(rs.cands[rs.idx])).err # None

(***************************************************************************)
(* Claims about enrichment of forests whose dicts carry derived fields     *)
(* already, checked under SpecEnrichStale.                                 *)
(***************************************************************************)
\* comment_data.get(field): a key with the value None reads like no key
Link(v) == IF v = None THEN Unset ELSE v

LinksOf(F, f) == [k \in DerivedFields |-> [x \in 1..F.n |-> Link(f[k][x])]]

\* C28: after _enrich_comment_tree the derived fields depend on the shape and
\* the ids of the forest only: whatever the dicts held before in parent_id,
\* root_id, next_sibling_id and next_root_id, they end with the fields a
\* forest of the same shape and ids without any of them ends with.
C28_FunctionOfShape ==
    passes >= 1 =>
        LinksOf(forest, fields)
            = LinksOf(forest, _enrich_comment_tree(forest, FreshFields(forest)))

(***************************************************************************)
(* Claims about the rendered comments, checked under SpecEnrich.           *)
(***************************************************************************)
\* The id attributes of the document
DocumentIds == {comments_html.doc[i].id : i \in 1..Len(comments_html.doc)}

\* The link field behind the k-th button of a node
ButtonField(x, k) ==
    CASE k = 1 -> fields.parent_id[x]
      [] k = 2 -> fields.next_sibling_id[x]
      [] k = 3 -> fields.root_id[x]
      [] k = 4 -> fields.next_root_id[x]

\* C29: in the document rendered from an enriched forest with unique ids
\* every navigation anchor's href "#c_X" names the id "c_X" of a comment of
\* the same document; a button whose link field is unset, and the thread-root
\* button at depth <= 1, is a span and no anchor.
C29_AnchorsResolve ==
    comments_html.rendered =>
        \A i \in 1..Len(comments_html.doc), k \in 1..4 :
            LET c == comments_html.doc[i]
                b == c.btns[k]
            IN  /\ b.tag = "a" => \E id \in DocumentIds : b.href = "#" \o id
                /\ Get(ButtonField(c.node, k)) = None => b.tag = "span"
                /\ (k = 3 /\ c.depth <= 1) => b.tag = "span"
                /\ b.tag \in {"a", "span"}

\* A document with a comment two levels down whose parent, thread-root and
\* next-thread buttons are anchors, a root whose buttons are all spans, and a
\* reply to a root whose thread-root button is a span although root_id is set.
C29_Witness ==
    /\ comments_html.rendered
    /\ \E i \in 1..Len(comments_html.doc) :
           /\ comments_html.doc[i].depth = 2
           /\ \A k \in {1, 3, 4} : comments_html.doc[i].btns[k].tag = "a"
    /\ \E i \in 1..Len(comments_html.doc) :
           /\ comments_html.doc[i].depth = 0
           /\ \A k \in 1..4 : comments_html.doc[i].btns[k].tag = "span"
    /\ \E i \in 1..Len(comments_html.doc) :
           /\ comments_html.doc[i].depth = 1
           /\ fields.root_id[comments_html.doc[i].node] # Unset
           /\ comments_html.doc[i].btns[3].tag = "span"

====
